---- MODULE Spec2Model ----
(***************************************************************************)
(* A model of services/generationService.ts (src/unnamed/part_005): one    *)
(* generateImage call, from dispatch over the submit request and the       *)
(* bounded polling loops to the value it returns or the error it throws.   *)
(* The remote side is the environment: every response a handler reads is   *)
(* drawn from a small set with \E.                                         *)
(*                                                                         *)
(* Strings built by interpolation are sequences of their pieces, so        *)
(* `data:image/png;base64,${b}` is <<"data:image/png;base64,", b>> and a   *)
(* plain URL u is <<u>>.  A JavaScript undefined is the string Undefined.  *)
(***************************************************************************)
EXTENDS Integers, Sequences, FiniteSets, TLC

VARIABLES
    config,      \* the Config value passed to generateImage
    API_KEY,     \* process.env.API_KEY
    pc,          \* where the call is: start, submit, sleep, poll, done
    attempts,    \* the loop counter `attempts` of the polling loop
    taskId,      \* event_id / task_id taken from the submit response
    submits,     \* number of submit requests issued by the call
    fetches,     \* number of status/event GETs issued by the call (saturating)
    result,      \* the value the call returned (NoResult while none)
    error,       \* the error the call threw (NoError while none)
    lastResp,    \* the response the call is handling or handled last (NoResp once it sleeps on)
    quietOnly,   \* history: every status answer so far was a success answer
                 \* with a non-terminal status (no image line, for the event stream)
    adapter,     \* the adapter the switch of generateImage entered
    lastReq,     \* the request the call issued last
    inflight,    \* number of requests of the call issued and not yet answered
    verify,      \* one verifyConnection call: its arguments, position and outcome
    resolved,    \* one getApiKey call: its arguments and the key it returned
    editor,      \* the configuration editor: entered keys, verification status, verifications under way
    res,         \* one resolution and what the two adapters derive from it
    calls,       \* two generateImage calls running at the same time
    enhance,     \* one enhancePromptWithGemini call: its prompt, position and outcome
    app,         \* the App screen: seed field, generation state, error message, progress timer
    design,      \* the App's categories, the selection stored per category and the prompt
    modal        \* the settings modal: the application's config, the local copy and the drag state

\* the variables of the generateImage call
genVars == <<config, API_KEY, pc, attempts, taskId, submits, fetches, result,
             error, lastResp, quietOnly, adapter, lastReq, inflight>>

\* the variables of the calls made from the settings surface
others == <<verify, resolved, editor, res, calls, enhance, app, design, modal>>

\* the variables of the prompt helper and of the screens
screens == <<enhance, app, design, modal>>

vars == <<config, API_KEY, pc, attempts, taskId, submits, fetches, result,
          error, lastResp, quietOnly, adapter, lastReq, inflight, verify, resolved,
          editor, res, calls, enhance, app, design, modal>>

-----------------------------------------------------------------------------
(* Bounds and program constants *)

\* while (attempts < 60)
MaxAttempts == 60

\* most lines in one event-stream response body
MaxLines == 2

\* the request counter stops counting one past the attempt budget
FetchCap == MaxAttempts + 1

Providers == {"gemini", "huggingface", "modelscope", "nvidia", "aliyun", "qiniu"}

Undefined == "undefined"

Falsy(s) == s = Undefined \/ s = ""

-----------------------------------------------------------------------------
(* Values returned and thrown *)

NoResult == <<>>

NoError == [name |-> "", msg |-> "", status |-> 0, detail |-> <<>>]

Err(msg) == [name |-> "Error", msg |-> msg, status |-> 0, detail |-> <<>>]

ErrWith(msg, status, detail) ==
    [name |-> "Error", msg |-> msg, status |-> status, detail |-> detail]

\* what fetch() rejects with on a network-level failure: a TypeError whose
\* message is the browser's
TypeError(message) == [name |-> "TypeError", msg |-> message, status |-> 0, detail |-> <<>>]

\* the message of Chromium, the one the catch of ModelScope looks for
FailedToFetch == TypeError("Failed to fetch")

\* what response.json() rejects with when the body is not JSON
JsonSyntaxError == [name |-> "SyntaxError", msg |-> "Unexpected token", status |-> 0, detail |-> <<>>]

\* the steps a handler can end with
Return(v, att) == [pc |-> "done", attempts |-> att, result |-> v, error |-> NoError]

Throw(e, att) == [pc |-> "done", attempts |-> att, result |-> NoResult, error |-> e]

Goto(p, att) == [pc |-> p, attempts |-> att, result |-> NoResult, error |-> NoError]

-----------------------------------------------------------------------------
(* Configuration *)

\* the key a provider has when one is configured for it
KeyOf(p) == IF p = "qiniu" THEN "sk-test" ELSE "key-" \o p

KeyMaps == { [p \in Providers |-> IF p \in S THEN KeyOf(p) ELSE ""] : S \in SUBSET Providers }

Proxies == {"", "https://corsproxy.io/?"}

EnvKeys == {"", "env-key"}

\* config.endpoints: no override, or one for the OpenAI-compatible provider
EndpointMaps ==
    { [p \in Providers |-> IF p = "qiniu" THEN e ELSE ""] : e \in {"", "https://proxy.example/v1"} }

\* The inputs of the model: the selected provider with its own key set or
\* not and the other providers' keys all set or all unset; the proxy and the
\* endpoint override vary for the one adapter that reads them.
Configs ==
    { c \in [apiProvider : Providers, keys : KeyMaps, corsProxy : Proxies,
              endpoints : EndpointMaps] :
        /\ \A p, q \in Providers \ {c.apiProvider} : (c.keys[p] = "") = (c.keys[q] = "")
        /\ c.corsProxy # "" => c.apiProvider = "modelscope"
        /\ c.endpoints["qiniu"] # "" => c.apiProvider = "qiniu" }

\* a configuration saved without a keys object
NoKeys == <<>>

\* (mutant) the environment secret stands in for every provider
getApiKeyEnvForAll(cfg, providerOverride) ==
    LET provider == IF Falsy(providerOverride) THEN cfg.apiProvider ELSE providerOverride
    IN  IF cfg.keys # NoKeys /\ ~Falsy(cfg.keys[provider]) THEN cfg.keys[provider]
        ELSE IF Falsy(API_KEY) THEN "" ELSE API_KEY

getApiKey(cfg, providerOverride) ==
    LET provider == IF Falsy(providerOverride) THEN cfg.apiProvider ELSE providerOverride
    IN  IF cfg.keys # NoKeys /\ ~Falsy(cfg.keys[provider]) THEN cfg.keys[provider]
        ELSE IF provider = "gemini" THEN (IF Falsy(API_KEY) THEN "" ELSE API_KEY)
        ELSE ""

-----------------------------------------------------------------------------
(* Responses of the remote side *)

NoResp == [type |-> "none", status |-> 0, json |-> FALSE, text |-> <<>>, body |-> <<>>]

\* the request never got an answer: fetch() rejects, with the message of the
\* browser the call runs in
NetFailWith(message) ==
    [type |-> "netfail", status |-> 0, json |-> FALSE, text |-> <<message>>, body |-> <<>>]

\* Chromium
NetFail == NetFailWith("Failed to fetch")

\* Firefox
NetworkError == NetFailWith("NetworkError when attempting to fetch resource.")

NetFails == {NetFail, NetworkError}

\* the error a rejected fetch throws
fetchRejection(r) == TypeError(r.text[1])

Http(status, text) == [type |-> "http", status |-> status, json |-> FALSE, text |-> text, body |-> <<>>]

Json(body) == [type |-> "http", status |-> 200, json |-> TRUE, text |-> <<>>, body |-> body]

\* response.ok
Ok(r) == r.type = "http" /\ r.status >= 200 /\ r.status <= 299

ErrStatuses == {401, 500}

\* response bodies read with response.text(), as sequences of characters
InternalError == <<"i","n","t","e","r","n","a","l"," ","e","r","r","o","r">>

Texts == {InternalError}

\* text.slice(0, 200)
SliceLen == 200

\* a response body longer than the slice
LongText == [i \in 1..(SliceLen + 1) |-> "x"]

\* non-success answers to a status request
Rejections == { Http(s, t) : s \in ErrStatuses, t \in Texts }

\* non-success answers to a submit request
SubmitRejections == { Http(s, t) : s \in ErrStatuses, t \in Texts \cup {LongText} }

\* a success status whose body is not JSON
NotJson == Http(200, <<"<","h","t","m","l",">">>)

Ids == {Undefined, "id-1"}

Images == {"https://x/y.png", "https://x/z.png"}

Messages == {"quota exceeded", "bad prompt"}

-----------------------------------------------------------------------------
(* The request counters *)

Count(n) == IF n < FetchCap THEN n + 1 ELSE n

\* the primed variables of a handler that ends with step s after reading r
Finish(s, r) ==
    /\ pc' = s.pc
    /\ attempts' = s.attempts
    /\ result' = s.result
    /\ error' = s.error
    /\ lastResp' = r

-----------------------------------------------------------------------------
(* Hugging Face space: submit, then the event-stream await (pollResult) *)

\* JSON values of a data line: an array of elements, or anything else
NoImage == [truthy |-> FALSE, url |-> Undefined]

Image(u) == [truthy |-> TRUE, url |-> u]

JNullElem == [truthy |-> FALSE, image |-> NoImage]

JObj(img) == [truthy |-> TRUE, image |-> img]

JNotArray == [isArray |-> FALSE, elems |-> <<>>]

JArray(es) == [isArray |-> TRUE, elems |-> es]

\* data[0]
First(es) == IF Len(es) >= 1 THEN es[1] ELSE JNullElem

\* the text after `data: `: whether JSON.parse accepts it, and the value
Unparsable == [valid |-> FALSE, value |-> JNotArray]

Parsed(v) == [valid |-> TRUE, value |-> v]

Payloads ==
    {Unparsable, Parsed(JNotArray), Parsed(JArray(<<JObj(NoImage)>>)),
     Parsed(JArray(<<JObj(Image(Undefined))>>))}
    \cup { Parsed(JArray(<<JObj(Image(u)), JObj(NoImage)>>)) : u \in Images }

\* a line of the body: the prefix it starts with and the rest of it
CommentLine == [prefix |-> ": ", rest |-> Unparsable]

CompleteLine == [prefix |-> "event: complete", rest |-> Unparsable]

DataLine(p) == [prefix |-> "data: ", rest |-> p]

Lines == {CommentLine, CompleteLine} \cup { DataLine(p) : p \in Payloads }

Bodies == UNION { [1..n -> Lines] : n \in 0..MaxLines }

\* what the remote put on a line: a data line whose JSON is an array with an
\* image in its first element
ImageLine(l) ==
    /\ l.prefix = "data: "
    /\ l.rest.valid
    /\ l.rest.value.isArray
    /\ Len(l.rest.value.elems) >= 1
    /\ l.rest.value.elems[1].truthy
    /\ l.rest.value.elems[1].image.truthy

startsWith(line, prefix) == line.prefix = prefix

\* the test of one line in the for loop: does it return, and what
lineHit(line) ==
    /\ ~startsWith(line, "event: complete")
    /\ startsWith(line, "data: ")
    /\ line.rest.valid
    /\ line.rest.value.isArray
    /\ First(line.rest.value.elems).truthy
    /\ First(line.rest.value.elems).image.truthy

RECURSIVE scanLines(_)
scanLines(lines) ==
    IF lines = <<>> THEN [found |-> FALSE, url |-> Undefined]
    ELSE IF lineHit(Head(lines))
         THEN [found |-> TRUE, url |-> First(Head(lines).rest.value.elems).image.url]
         ELSE scanLines(Tail(lines))

HFSubmitResponses ==
    NetFails \cup {NotJson} \cup SubmitRejections \cup { Json([event_id |-> i]) : i \in Ids }

\* a success answer read with response.text() and split into lines
Stream(lines) == [type |-> "http", status |-> 200, json |-> FALSE, text |-> <<>>, body |-> lines]

HFEventResponses == NetFails \cup Rejections \cup { Stream(b) : b \in Bodies }

\* (mutant) the loop condition off by one: attempts <= 60
pollResultLoopOffByOne(att) ==
    IF att <= MaxAttempts THEN Goto("poll", att)
    ELSE Throw(Err("Generation timed out"), att)

\* while (attempts < 60) { fetch ... } throw "Generation timed out"
pollResultLoop(att) ==
    IF att < MaxAttempts THEN Goto("poll", att)
    ELSE Throw(Err("Generation timed out"), att)

generateWithHuggingFaceSubmitted(r) ==
    IF r.type = "netfail" THEN Throw(fetchRejection(r), 0)
    ELSE IF ~Ok(r) THEN Throw(ErrWith("HF API Error", r.status, r.text), 0)
    ELSE IF ~r.json THEN Throw(JsonSyntaxError, 0)
    ELSE pollResultLoop(0)

\* (mutant) without the try/catch around JSON.parse: a data line that does
\* not parse, met before an image line, throws out of the await
pollResultNoCatch(r, att) ==
    IF r.type = "netfail" THEN Throw(fetchRejection(r), att)
    ELSE IF ~Ok(r) THEN Throw(Err("Polling failed"), att)
    ELSE IF \E i \in 1..Len(r.body) :
               /\ startsWith(r.body[i], "data: ") /\ ~r.body[i].rest.valid
               /\ \A j \in 1..(i - 1) : ~lineHit(r.body[j])
         THEN Throw(JsonSyntaxError, att)
    ELSE IF scanLines(r.body).found THEN Return(<<scanLines(r.body).url>>, att)
    ELSE Goto("sleep", att)

\* one pass of the loop body up to the sleep
\* (mutant) the complete marker ends the await: without an image in the same
\* read the call fails
pollResultCompleteEnds(r, att) ==
    IF r.type = "netfail" THEN Throw(fetchRejection(r), att)
    ELSE IF ~Ok(r) THEN Throw(Err("Polling failed"), att)
    ELSE IF scanLines(r.body).found THEN Return(<<scanLines(r.body).url>>, att)
    ELSE IF \E i \in 1..Len(r.body) : startsWith(r.body[i], "event: complete")
         THEN Throw(Err("Generation completed without image"), att)
    ELSE Goto("sleep", att)

pollResult(r, att) ==
    IF r.type = "netfail" THEN Throw(fetchRejection(r), att)
    ELSE IF ~Ok(r) THEN Throw(Err("Polling failed"), att)
    ELSE IF scanLines(r.body).found THEN Return(<<scanLines(r.body).url>>, att)
    ELSE Goto("sleep", att)

\* the sleep ends: attempts++, then the loop condition
pollResultWake(att) == pollResultLoop(att + 1)

-----------------------------------------------------------------------------
(* ModelScope: submit, then the task polling loop *)

MSTasks ==
    { [task_status |-> st, output_images |-> <<>>, message |-> Undefined] :
        st \in {"PENDING", "RUNNING", "CANCELED"} }
    \cup { [task_status |-> st, output_images |-> imgs, message |-> Undefined] :
        st \in {"SUCCEED", "SUCCEEDED"},
        imgs \in {<<>>, <<"https://x/y.png">>, <<"https://x/z.png", "https://x/y.png">>} }
    \cup { [task_status |-> "FAILED", output_images |-> <<>>, message |-> m] : m \in Messages }

MSSubmitResponses ==
    NetFails \cup {NotJson} \cup SubmitRejections \cup { Json([task_id |-> i]) : i \in Ids }

MSTaskResponses == NetFails \cup {NotJson} \cup Rejections \cup { Json(t) : t \in MSTasks }

\* JSON.stringify(taskData): the fields and their values, in order
JSONstringify(t) == <<"task_status", t.task_status, "message", t.message, "output_images">> \o t.output_images

\* the catch block around the whole adapter
modelScopeCatch(e) ==
    IF e.name = "TypeError" /\ e.msg = "Failed to fetch"
    THEN Err("ModelScope CORS")
    ELSE e

\* try { ... } catch (e) { ... }: an error thrown inside leaves through the catch
modelScopeTry(step) ==
    IF step.error # NoError THEN [step EXCEPT !.error = modelScopeCatch(step.error)]
    ELSE step

\* while (attempts < 60) { sleep ... } throw "ModelScope generation timed out."
modelScopeLoop(att) ==
    IF att < MaxAttempts THEN Goto("sleep", att)
    ELSE Throw(Err("ModelScope generation timed out."), att)

generateWithModelScopeSubmitted(r) ==
    modelScopeTry(
        IF r.type = "netfail" THEN Throw(fetchRejection(r), 0)
        ELSE IF ~Ok(r) THEN Throw(ErrWith("ModelScope Error", r.status, r.text), 0)
        ELSE IF ~r.json THEN Throw(JsonSyntaxError, 0)
        ELSE IF Falsy(r.body.task_id)
             THEN Throw(Err("Failed to start ModelScope task: No task_id returned."), 0)
        ELSE modelScopeLoop(0))

\* (mutant) the last output image is returned instead of the first
generateWithModelScopePolledLastImage(r, att) ==
    modelScopeTry(
        IF r.type = "netfail" THEN Throw(fetchRejection(r), att)
        ELSE IF ~Ok(r) THEN modelScopeLoop(att)
        ELSE IF ~r.json THEN Throw(JsonSyntaxError, att)
        ELSE IF r.body.task_status \in {"SUCCEED", "SUCCEEDED"}
             THEN IF Len(r.body.output_images) > 0
                  THEN Return(<<r.body.output_images[Len(r.body.output_images)]>>, att)
                  ELSE Throw(Err("Task succeeded but no images returned."), att)
        ELSE IF r.body.task_status = "FAILED"
             THEN Throw(ErrWith("ModelScope task failed", 0, JSONstringify(r.body)), att)
        ELSE IF r.body.task_status = "CANCELED"
             THEN Throw(Err("ModelScope task canceled."), att)
        ELSE modelScopeLoop(att + 1))

\* the loop body after the status fetch, to the next loop condition
generateWithModelScopePolled(r, att) ==
    modelScopeTry(
        IF r.type = "netfail" THEN Throw(fetchRejection(r), att)
        ELSE IF ~Ok(r) THEN modelScopeLoop(att)
        ELSE IF ~r.json THEN Throw(JsonSyntaxError, att)
        ELSE IF r.body.task_status \in {"SUCCEED", "SUCCEEDED"}
             THEN IF Len(r.body.output_images) > 0
                  THEN Return(<<r.body.output_images[1]>>, att)
                  ELSE Throw(Err("Task succeeded but no images returned."), att)
        ELSE IF r.body.task_status = "FAILED"
             THEN Throw(ErrWith("ModelScope task failed", 0, JSONstringify(r.body)), att)
        ELSE IF r.body.task_status = "CANCELED"
             THEN Throw(Err("ModelScope task canceled."), att)
        ELSE modelScopeLoop(att + 1))

-----------------------------------------------------------------------------
(* Aliyun: submit, then the task polling loop *)

\* taskData.output; an absent output reads as undefined in every field
NoOutput == [task_status |-> Undefined, results |-> <<>>, message |-> Undefined]

AliyunOutputs ==
    {NoOutput}
    \cup { [task_status |-> st, results |-> <<>>, message |-> Undefined] :
        st \in {"PENDING", "RUNNING", "CANCELED"} }
    \cup { [task_status |-> "SUCCEEDED", results |-> rs, message |-> Undefined] :
        rs \in {<<>>, <<[url |-> Undefined]>>, <<[url |-> "https://x/y.png"]>>,
                 <<[url |-> "https://x/z.png"], [url |-> "https://x/y.png"]>>} }
    \cup { [task_status |-> "FAILED", results |-> <<>>, message |-> m] : m \in Messages }

AliyunSubmitResponses ==
    NetFails \cup {NotJson} \cup SubmitRejections \cup { Json([output |-> [task_id |-> i]]) : i \in Ids }

AliyunTaskResponses ==
    NetFails \cup {NotJson} \cup Rejections \cup { Json([output |-> o]) : o \in AliyunOutputs }

\* taskData.output?.results?.[0]?.url
firstUrl(results) == IF Len(results) >= 1 THEN results[1].url ELSE Undefined

\* (mutant) the loop condition off by one: attempts <= 60
aliyunLoopOffByOne(att) ==
    IF att <= MaxAttempts THEN Goto("sleep", att)
    ELSE Throw(Err("Aliyun generation timed out."), att)

\* while (attempts < 60) { sleep ... } throw "Aliyun generation timed out."
aliyunLoop(att) ==
    IF att < MaxAttempts THEN Goto("sleep", att)
    ELSE Throw(Err("Aliyun generation timed out."), att)

generateWithAliyunSubmitted(r) ==
    IF r.type = "netfail" THEN Throw(fetchRejection(r), 0)
    ELSE IF ~Ok(r) THEN Throw(ErrWith("Aliyun Error", r.status, r.text), 0)
    ELSE IF ~r.json THEN Throw(JsonSyntaxError, 0)
    ELSE IF Falsy(r.body.output.task_id) THEN Throw(Err("Failed to start Aliyun task."), 0)
    ELSE aliyunLoop(0)

\* (mutant) the FAILED branch is missing: a failed task is polled on
generateWithAliyunPolledNoFailed(r, att) ==
    IF r.type = "netfail" THEN Throw(fetchRejection(r), att)
    ELSE IF Ok(r) /\ ~r.json THEN Throw(JsonSyntaxError, att)
    ELSE IF Ok(r) /\ r.body.output.task_status = "SUCCEEDED"
                 /\ ~Falsy(firstUrl(r.body.output.results))
         THEN Return(<<firstUrl(r.body.output.results)>>, att)
    ELSE aliyunLoop(att + 1)

\* the loop body after the status fetch, to the next loop condition
generateWithAliyunPolled(r, att) ==
    IF r.type = "netfail" THEN Throw(fetchRejection(r), att)
    ELSE IF Ok(r) /\ ~r.json THEN Throw(JsonSyntaxError, att)
    ELSE IF Ok(r) /\ r.body.output.task_status = "SUCCEEDED"
                 /\ ~Falsy(firstUrl(r.body.output.results))
         THEN Return(<<firstUrl(r.body.output.results)>>, att)
    ELSE IF Ok(r) /\ r.body.output.task_status = "FAILED"
         THEN Throw(ErrWith("Aliyun task failed", 0, <<r.body.output.message>>), att)
    ELSE aliyunLoop(att + 1)

-----------------------------------------------------------------------------
(* The adapters that answer in one request: NVIDIA, OpenAI-compatible, Gemini *)

NvidiaResponses ==
    NetFails \cup {NotJson} \cup SubmitRejections
    \cup { Json([artifacts |-> a]) : a \in {<<>>, <<[base64 |-> "QQ=="]>>, <<[base64 |-> Undefined]>>} }

\* text.slice(0, 200)
slice200(text) == SubSeq(text, 1, IF Len(text) < SliceLen THEN Len(text) ELSE SliceLen)

generateWithNvidiaResponded(r) ==
    IF r.type = "netfail" THEN Throw(fetchRejection(r), 0)
    ELSE IF ~Ok(r) THEN Throw(ErrWith("NVIDIA API Error", r.status, slice200(r.text)), 0)
    ELSE IF ~r.json THEN Throw(JsonSyntaxError, 0)
    ELSE IF Len(r.body.artifacts) > 0
         THEN Return(<<"data:image/jpeg;base64,", r.body.artifacts[1].base64>>, 0)
    ELSE Throw(Err("No image returned from NVIDIA."), 0)

OpenAIItems ==
    { [b64_json |-> b, url |-> u] : b \in {Undefined, "QQ=="}, u \in {Undefined, "https://x/y.png"} }

OpenAIResponses ==
    NetFails \cup {NotJson} \cup SubmitRejections
    \cup { Json([data |-> d]) : d \in {<<>>} \cup { <<i>> : i \in OpenAIItems } }

\* (mutant) the URL of the item is preferred to its inline bytes
generateWithOpenAICompatibleRespondedUrlFirst(r) ==
    IF r.type = "netfail" THEN Throw(fetchRejection(r), 0)
    ELSE IF ~Ok(r) THEN Throw(ErrWith("API Error", r.status, r.text), 0)
    ELSE IF ~r.json THEN Throw(JsonSyntaxError, 0)
    ELSE IF Len(r.body.data) > 0 /\ ~Falsy(r.body.data[1].url)
         THEN Return(<<r.body.data[1].url>>, 0)
    ELSE IF Len(r.body.data) > 0 /\ ~Falsy(r.body.data[1].b64_json)
         THEN Return(<<"data:image/png;base64,", r.body.data[1].b64_json>>, 0)
    ELSE Throw(Err("No image data returned from API."), 0)

\* (mutant) the error message leaves out the response body
generateWithOpenAICompatibleRespondedNoText(r) ==
    IF r.type = "netfail" THEN Throw(fetchRejection(r), 0)
    ELSE IF ~Ok(r) THEN Throw(ErrWith("API Error", r.status, <<>>), 0)
    ELSE IF ~r.json THEN Throw(JsonSyntaxError, 0)
    ELSE IF Len(r.body.data) > 0 /\ ~Falsy(r.body.data[1].b64_json)
         THEN Return(<<"data:image/png;base64,", r.body.data[1].b64_json>>, 0)
    ELSE IF Len(r.body.data) > 0 /\ ~Falsy(r.body.data[1].url)
         THEN Return(<<r.body.data[1].url>>, 0)
    ELSE Throw(Err("No image data returned from API."), 0)

generateWithOpenAICompatibleResponded(r) ==
    IF r.type = "netfail" THEN Throw(fetchRejection(r), 0)
    ELSE IF ~Ok(r) THEN Throw(ErrWith("API Error", r.status, r.text), 0)
    ELSE IF ~r.json THEN Throw(JsonSyntaxError, 0)
    ELSE IF Len(r.body.data) > 0 /\ ~Falsy(r.body.data[1].b64_json)
         THEN Return(<<"data:image/png;base64,", r.body.data[1].b64_json>>, 0)
    ELSE IF Len(r.body.data) > 0 /\ ~Falsy(r.body.data[1].url)
         THEN Return(<<r.body.data[1].url>>, 0)
    ELSE Throw(Err("No image data returned from API."), 0)

\* the SDK call rejects, or resolves with response.generatedImages
SdkFail == [type |-> "sdkfail", status |-> 0, json |-> FALSE, text |-> <<>>, body |-> <<>>]

SdkError == [name |-> "ApiError", msg |-> "generateImages failed", status |-> 0, detail |-> <<>>]

GeminiResponses ==
    {SdkFail}
    \cup { Json([generatedImages |-> g]) :
             g \in {<<>>, <<[imageBytes |-> "QQ=="]>>, <<[imageBytes |-> Undefined]>>} }

\* response.generatedImages?.[0]?.image?.imageBytes
imageBytes(g) == IF Len(g) >= 1 THEN g[1].imageBytes ELSE Undefined

generateWithGeminiResponded(r) ==
    IF r.type = "sdkfail" THEN Throw(SdkError, 0)
    ELSE IF ~Falsy(imageBytes(r.body.generatedImages))
         THEN Return(<<"data:image/jpeg;base64,", imageBytes(r.body.generatedImages)>>, 0)
    ELSE Throw(Err("No image data returned from Gemini"), 0)

-----------------------------------------------------------------------------
(* generateImage: the dispatch and each adapter up to its first request *)

missingKey(provider) ==
    CASE provider = "modelscope" -> Err("ModelScope API Token is missing. Please configure it in Settings.")
      [] provider = "nvidia" -> Err("NVIDIA API Key is missing. Please configure it in Settings.")
      [] provider = "aliyun" -> Err("Aliyun API Key is missing.")
      [] provider = "qiniu" -> Err("API Key is missing.")
      [] OTHER -> Err("Google Gemini API Key is missing.")

\* (mutant) the switch has no case for the OpenAI-compatible provider
adapterOfNoQiniu(provider) ==
    CASE provider = "huggingface" -> "huggingface"
      [] provider = "modelscope" -> "modelscope"
      [] provider = "nvidia" -> "nvidia"
      [] provider = "aliyun" -> "aliyun"
      [] OTHER -> "gemini"

\* switch (config.apiProvider): the adapter a provider value selects
adapterOf(provider) ==
    CASE provider = "huggingface" -> "huggingface"
      [] provider = "modelscope" -> "modelscope"
      [] provider = "nvidia" -> "nvidia"
      [] provider = "aliyun" -> "aliyun"
      [] provider = "qiniu" -> "qiniu"
      [] OTHER -> "gemini"

\* (mutant) no adapter tests the key
generateImageDispatchNoKeyTest(cfg) == Goto("submit", 0)

\* the step generateImage takes for a config: the submit request, or a throw
generateImageDispatch(cfg) ==
    IF adapterOf(cfg.apiProvider) = "huggingface" THEN Goto("submit", 0)
    ELSE IF getApiKey(cfg, Undefined) = ""
         THEN Throw(missingKey(adapterOf(cfg.apiProvider)), 0)
    ELSE Goto("submit", 0)

-----------------------------------------------------------------------------
(* The requests an adapter issues: the URL as proxy prefix, base and id, and
   the bearer token of the Authorization header ("" when none is sent) *)

NoReq == [proxy |-> "", base |-> "", id |-> "", auth |-> ""]

Request(proxy, base, id, auth) == [proxy |-> proxy, base |-> base, id |-> id, auth |-> auth]

\* config.endpoints?.[config.apiProvider] || "https://api.openai.com/v1/images/generations"
openAIEndpoint(cfg) ==
    IF cfg.endpoints[cfg.apiProvider] # "" THEN cfg.endpoints[cfg.apiProvider]
    ELSE "https://api.openai.com/v1/images/generations"

\* the submit request of each adapter (for Gemini, the SDK call and its apiKey)
submitRequest(ad, cfg) ==
    CASE ad = "huggingface" ->
            Request("", "https://tongyi-mai-z-image-turbo.hf.space/call/generate", "",
                    getApiKey(cfg, Undefined))
      [] ad = "modelscope" ->
            Request(cfg.corsProxy, "https://api-inference.modelscope.cn/v1/images/generations", "",
                    getApiKey(cfg, Undefined))
      [] ad = "nvidia" ->
            Request("", "https://ai.api.nvidia.com/v1/genai/stabilityai/stable-diffusion-3.5-large", "",
                    getApiKey(cfg, Undefined))
      [] ad = "aliyun" ->
            Request("", "https://dashscope.aliyuncs.com/api/v1/services/aigc/text2image/image-synthesis", "",
                    getApiKey(cfg, Undefined))
      [] ad = "qiniu" ->
            Request("", openAIEndpoint(cfg), "", getApiKey(cfg, Undefined))
      [] OTHER ->
            Request("", "GoogleGenAI imagen-4.0-generate-001", "", getApiKey(cfg, Undefined))

\* the status / event GET of the three polling adapters
statusRequest(ad, cfg, id) ==
    CASE ad = "huggingface" ->
            Request("", "https://tongyi-mai-z-image-turbo.hf.space/call/generate/", id,
                    getApiKey(cfg, Undefined))
      [] ad = "modelscope" ->
            Request(cfg.corsProxy, "https://api-inference.modelscope.cn/v1/tasks/", id,
                    getApiKey(cfg, Undefined))
      [] OTHER ->
            Request("", "https://dashscope.aliyuncs.com/api/v1/tasks/", id,
                    getApiKey(cfg, Undefined))

-----------------------------------------------------------------------------
(* The state machine of one generateImage call *)

\* no verifyConnection call and no getApiKey call under way
NoVerify ==
    [pc |-> "idle", provider |-> "", key |-> "", endpoint |-> <<>>, proxy |-> "",
     url |-> <<>>, calls |-> 0, resp |-> NoResp,
     returned |-> FALSE, value |-> FALSE, error |-> NoError]

NoResolved == [pc |-> "idle", providerOverride |-> "", key |-> ""]

\* the editor is closed, no resolution is being converted, no pair of calls runs
NoEditor == [open |-> FALSE]

NoRes == [pc |-> "idle"]

NoCalls == <<>>

\* no prompt is being enhanced and no screen is mounted
NoEnhance == [pc |-> "idle"]

NoApp == [pc |-> "idle"]

NoDesign == [pc |-> "idle"]

NoModal == [pc |-> "idle"]

NoScreens ==
    /\ enhance = NoEnhance
    /\ app = NoApp
    /\ design = NoDesign
    /\ modal = NoModal

Init ==
    /\ config \in Configs
    /\ API_KEY \in EnvKeys
    /\ pc = "start"
    /\ attempts = 0
    /\ taskId = Undefined
    /\ submits = 0
    /\ fetches = 0
    /\ result = NoResult
    /\ error = NoError
    /\ lastResp = NoResp
    /\ quietOnly = TRUE
    /\ adapter = "none"
    /\ lastReq = NoReq
    /\ inflight = 0
    /\ verify = NoVerify
    /\ resolved = NoResolved
    /\ editor = NoEditor
    /\ res = NoRes
    /\ calls = NoCalls
    /\ NoScreens

\* (mutant) a failed call is dispatched once more
generateImageAgain ==
    /\ pc = "start" \/ (pc = "done" /\ error # NoError /\ submits = 1)
    /\ Finish(generateImageDispatch(config), NoResp)
    /\ adapter' = adapterOf(config.apiProvider)
    /\ submits' = IF generateImageDispatch(config).pc = "submit" THEN submits + 1 ELSE submits
    /\ lastReq' = IF generateImageDispatch(config).pc = "submit"
                  THEN submitRequest(adapterOf(config.apiProvider), config) ELSE lastReq
    /\ inflight' = IF generateImageDispatch(config).pc = "submit" THEN inflight + 1 ELSE inflight
    /\ UNCHANGED <<config, API_KEY, taskId, fetches, quietOnly>>
    /\ UNCHANGED others

generateImage ==
    /\ pc = "start"
    /\ Finish(generateImageDispatch(config), NoResp)
    /\ adapter' = adapterOf(config.apiProvider)
    /\ submits' = IF generateImageDispatch(config).pc = "submit" THEN submits + 1 ELSE submits
    /\ lastReq' = IF generateImageDispatch(config).pc = "submit"
                  THEN submitRequest(adapterOf(config.apiProvider), config) ELSE lastReq
    /\ inflight' = IF generateImageDispatch(config).pc = "submit" THEN inflight + 1 ELSE inflight
    /\ UNCHANGED <<config, API_KEY, taskId, fetches, quietOnly>>
    /\ UNCHANGED others

\* the submit response of the space arrives; pollResult issues its first GET
HuggingFaceSubmitted ==
    /\ pc = "submit" /\ adapter = "huggingface"
    /\ \E r \in HFSubmitResponses :
         /\ Finish(generateWithHuggingFaceSubmitted(r), r)
         /\ taskId' = IF Ok(r) /\ r.json THEN r.body.event_id ELSE taskId
         /\ fetches' = IF generateWithHuggingFaceSubmitted(r).pc = "poll" THEN Count(fetches) ELSE fetches
         /\ lastReq' = IF generateWithHuggingFaceSubmitted(r).pc = "poll"
                       THEN statusRequest("huggingface", config, r.body.event_id) ELSE lastReq
    /\ UNCHANGED <<config, API_KEY, submits, quietOnly, adapter>>
    /\ inflight' = inflight - 1 + (IF pc' = "poll" THEN 1 ELSE 0)
    /\ UNCHANGED others

\* the answer to an event GET arrives and is scanned
HuggingFacePolled ==
    /\ pc = "poll" /\ adapter = "huggingface"
    /\ \E r \in HFEventResponses :
         /\ Finish(pollResult(r, attempts), r)
         /\ quietOnly' = (quietOnly /\ Ok(r) /\ \A i \in 1..Len(r.body) : ~ImageLine(r.body[i]))
    /\ UNCHANGED <<config, API_KEY, taskId, submits, fetches, adapter, lastReq>>
    /\ inflight' = inflight - 1 + (IF pc' = "poll" THEN 1 ELSE 0)
    /\ UNCHANGED others

\* the one-second sleep ends: attempts++, and the next GET or the timeout
HuggingFaceWake ==
    /\ pc = "sleep" /\ adapter = "huggingface"
    /\ Finish(pollResultWake(attempts), NoResp)
    /\ fetches' = IF pollResultWake(attempts).pc = "poll" THEN Count(fetches) ELSE fetches
    /\ lastReq' = IF pollResultWake(attempts).pc = "poll"
                  THEN statusRequest("huggingface", config, taskId) ELSE lastReq
    /\ UNCHANGED <<config, API_KEY, taskId, submits, quietOnly, adapter>>
    /\ inflight' = inflight + (IF pc' = "poll" THEN 1 ELSE 0)
    /\ UNCHANGED others

ModelScopeSubmitted ==
    /\ pc = "submit" /\ adapter = "modelscope"
    /\ \E r \in MSSubmitResponses :
         /\ Finish(generateWithModelScopeSubmitted(r), r)
         /\ taskId' = IF Ok(r) /\ r.json THEN r.body.task_id ELSE taskId
    /\ UNCHANGED <<config, API_KEY, submits, fetches, quietOnly, adapter, lastReq>>
    /\ inflight' = inflight - 1 + (IF pc' = "poll" THEN 1 ELSE 0)
    /\ UNCHANGED others

\* the two-second sleep ends and the status GET is issued
ModelScopeWake ==
    /\ pc = "sleep" /\ adapter = "modelscope"
    /\ pc' = "poll"
    /\ fetches' = Count(fetches)
    /\ lastResp' = NoResp
    /\ lastReq' = statusRequest("modelscope", config, taskId)
    /\ UNCHANGED <<config, API_KEY, attempts, taskId, submits, result, error, quietOnly, adapter>>
    /\ inflight' = inflight + (IF pc' = "poll" THEN 1 ELSE 0)
    /\ UNCHANGED others

ModelScopePolled ==
    /\ pc = "poll" /\ adapter = "modelscope"
    /\ \E r \in MSTaskResponses :
         /\ Finish(generateWithModelScopePolled(r, attempts), r)
         /\ quietOnly' = (quietOnly /\ Ok(r) /\ r.json /\ r.body.task_status \in {"PENDING", "RUNNING"})
    /\ UNCHANGED <<config, API_KEY, taskId, submits, fetches, adapter, lastReq>>
    /\ inflight' = inflight - 1 + (IF pc' = "poll" THEN 1 ELSE 0)
    /\ UNCHANGED others

AliyunSubmitted ==
    /\ pc = "submit" /\ adapter = "aliyun"
    /\ \E r \in AliyunSubmitResponses :
         /\ Finish(generateWithAliyunSubmitted(r), r)
         /\ taskId' = IF Ok(r) /\ r.json THEN r.body.output.task_id ELSE taskId
    /\ UNCHANGED <<config, API_KEY, submits, fetches, quietOnly, adapter, lastReq>>
    /\ inflight' = inflight - 1 + (IF pc' = "poll" THEN 1 ELSE 0)
    /\ UNCHANGED others

\* (mutant) the status GET is sent on a timer, whether or not the one before
\* it has been answered
AliyunWakeOnTimer ==
    /\ pc \in {"sleep", "poll"} /\ adapter = "aliyun" /\ inflight < 2
    /\ pc' = "poll"
    /\ fetches' = Count(fetches)
    /\ lastResp' = NoResp
    /\ lastReq' = statusRequest("aliyun", config, taskId)
    /\ UNCHANGED <<config, API_KEY, attempts, taskId, submits, result, error, quietOnly, adapter>>
    /\ inflight' = inflight + 1
    /\ UNCHANGED others

AliyunWake ==
    /\ pc = "sleep" /\ adapter = "aliyun"
    /\ pc' = "poll"
    /\ fetches' = Count(fetches)
    /\ lastResp' = NoResp
    /\ lastReq' = statusRequest("aliyun", config, taskId)
    /\ UNCHANGED <<config, API_KEY, attempts, taskId, submits, result, error, quietOnly, adapter>>
    /\ inflight' = inflight + (IF pc' = "poll" THEN 1 ELSE 0)
    /\ UNCHANGED others

AliyunPolled ==
    /\ pc = "poll" /\ adapter = "aliyun"
    /\ \E r \in AliyunTaskResponses :
         /\ Finish(generateWithAliyunPolled(r, attempts), r)
         /\ quietOnly' = (quietOnly /\ Ok(r) /\ r.json /\ r.body.output.task_status \in {"PENDING", "RUNNING"})
    /\ UNCHANGED <<config, API_KEY, taskId, submits, fetches, adapter, lastReq>>
    /\ inflight' = inflight - 1 + (IF pc' = "poll" THEN 1 ELSE 0)
    /\ UNCHANGED others

NvidiaResponded ==
    /\ pc = "submit" /\ adapter = "nvidia"
    /\ \E r \in NvidiaResponses : Finish(generateWithNvidiaResponded(r), r)
    /\ UNCHANGED <<config, API_KEY, taskId, submits, fetches, quietOnly, adapter, lastReq>>
    /\ inflight' = inflight - 1 + (IF pc' = "poll" THEN 1 ELSE 0)
    /\ UNCHANGED others

OpenAICompatibleResponded ==
    /\ pc = "submit" /\ adapter = "qiniu"
    /\ \E r \in OpenAIResponses : Finish(generateWithOpenAICompatibleResponded(r), r)
    /\ UNCHANGED <<config, API_KEY, taskId, submits, fetches, quietOnly, adapter, lastReq>>
    /\ inflight' = inflight - 1 + (IF pc' = "poll" THEN 1 ELSE 0)
    /\ UNCHANGED others

GeminiResponded ==
    /\ pc = "submit" /\ adapter = "gemini"
    /\ \E r \in GeminiResponses : Finish(generateWithGeminiResponded(r), r)
    /\ UNCHANGED <<config, API_KEY, taskId, submits, fetches, quietOnly, adapter, lastReq>>
    /\ inflight' = inflight - 1 + (IF pc' = "poll" THEN 1 ELSE 0)
    /\ UNCHANGED others

Next ==
    \/ generateImage
    \/ HuggingFaceSubmitted
    \/ HuggingFacePolled
    \/ HuggingFaceWake
    \/ ModelScopeSubmitted
    \/ ModelScopeWake
    \/ ModelScopePolled
    \/ AliyunSubmitted
    \/ AliyunWake
    \/ AliyunPolled
    \/ NvidiaResponded
    \/ OpenAICompatibleResponded
    \/ GeminiResponded

Spec == Init /\ [][Next]_vars

\* every request is answered (or fails) and every timer fires
FairSpec == Spec /\ WF_vars(Next)

-----------------------------------------------------------------------------
(* verifyConnection *)

\* the keys, endpoints and proxies the configuration editor hands over;
\* URLs are sequences of the pieces they are put together from
VerifyKeys == {"", "key-1"}

VerifyEndpoints == {<<>>, <<"/">>, <<"https://proxy.example/v1">>, <<"https://proxy.example/v1", "/">>}

VerifyStatuses == {200, 400, 401, 403, 405, 500}

\* generateContent() resolved
SdkOk == [type |-> "sdk", status |-> 0, json |-> TRUE, text |-> <<>>, body |-> <<>>]

VerifyResponses(provider) ==
    IF provider = "gemini" THEN {SdkFail, SdkOk}
    ELSE NetFails \cup { Http(st, <<>>) : st \in VerifyStatuses }

VReturn(b) == [pc |-> "done", returned |-> TRUE, value |-> b, error |-> NoError, url |-> <<>>]

VThrow(e) == [pc |-> "done", returned |-> FALSE, value |-> FALSE, error |-> e, url |-> <<>>]

VAwait(url) == [pc |-> "wait", returned |-> FALSE, value |-> FALSE, error |-> NoError, url |-> url]

\* endpoint.replace(/\/$/, '')
stripTrailingSlash(endpoint) ==
    IF endpoint # <<>> /\ endpoint[Len(endpoint)] = "/"
    THEN SubSeq(endpoint, 1, Len(endpoint) - 1) ELSE endpoint

\* (mutant) the error goes on to the caller
verifyCatchRethrow(step) == step

\* catch (e) { console.error(...); return false; }
verifyCatch(step) ==
    IF step.error # NoError THEN VReturn(FALSE) ELSE step

\* (mutant) only 200 passes the probe
authPassedOnly200(status) == status = 200

\* res.status !== 401 && res.status !== 403
authPassed(status) == status # 401 /\ status # 403

\* (mutant) no test of the key
verifyConnectionEnteredNoKeyTest(provider, key, endpoint, proxy) ==
    verifyCatch(
        CASE provider = "gemini" -> VAwait(<<"GoogleGenAI gemini-3-flash-preview">>)
          [] provider = "huggingface" -> VAwait(<<"https://huggingface.co/api/whoami-v2">>)
          [] provider = "modelscope" ->
                VAwait(IF ~Falsy(proxy) THEN <<proxy, "https://modelscope.cn/api/v1/user/my">>
                       ELSE <<"https://modelscope.cn/api/v1/user/my">>)
          [] provider = "nvidia" ->
                VAwait(<<"https://api.nvidia.com/v1/genai/stabilityai/stable-diffusion-3.5-large">>)
          [] provider = "aliyun" ->
                VAwait(<<"https://dashscope.aliyuncs.com/api/v1/services/aigc/text2image/image-synthesis">>)
          [] provider = "qiniu" ->
                VAwait(IF endpoint # <<>> THEN stripTrailingSlash(endpoint) \o <<"/models">>
                       ELSE <<"https://api.openai.com/v1/models">>)
          [] OTHER -> VReturn(FALSE))

\* verifyConnection up to its first await
verifyConnectionEntered(provider, key, endpoint, proxy) ==
    IF Falsy(key) THEN VReturn(FALSE)
    ELSE verifyCatch(
        CASE provider = "gemini" -> VAwait(<<"GoogleGenAI gemini-3-flash-preview">>)
          [] provider = "huggingface" -> VAwait(<<"https://huggingface.co/api/whoami-v2">>)
          [] provider = "modelscope" ->
                VAwait(IF ~Falsy(proxy) THEN <<proxy, "https://modelscope.cn/api/v1/user/my">>
                       ELSE <<"https://modelscope.cn/api/v1/user/my">>)
          [] provider = "nvidia" ->
                VAwait(<<"https://api.nvidia.com/v1/genai/stabilityai/stable-diffusion-3.5-large">>)
          [] provider = "aliyun" ->
                VAwait(<<"https://dashscope.aliyuncs.com/api/v1/services/aigc/text2image/image-synthesis">>)
          [] provider = "qiniu" ->
                VAwait(IF endpoint # <<>> THEN stripTrailingSlash(endpoint) \o <<"/models">>
                       ELSE <<"https://api.openai.com/v1/models">>)
          [] OTHER -> VReturn(FALSE))

\* the switch from the answer of the awaited call on
verifySwitch(provider, r) ==
    IF r.type = "netfail" THEN VThrow(fetchRejection(r))
    ELSE IF r.type = "sdkfail" THEN VThrow(SdkError)
    ELSE CASE provider = "gemini" -> VReturn(TRUE)
           [] provider = "huggingface" -> VReturn(r.status = 200)
           [] provider = "modelscope" -> VReturn(r.status = 200)
           [] provider = "nvidia" -> VReturn(authPassed(r.status))
           [] provider = "aliyun" -> VReturn(authPassed(r.status))
           [] provider = "qiniu" -> VReturn(r.status = 200)
           [] OTHER -> VReturn(FALSE)

verifyConnectionResponded(provider, r) == verifyCatch(verifySwitch(provider, r))

\* no generateImage call under way
NoCall ==
    /\ pc = "start"
    /\ attempts = 0
    /\ taskId = Undefined
    /\ submits = 0
    /\ fetches = 0
    /\ result = NoResult
    /\ error = NoError
    /\ lastResp = NoResp
    /\ quietOnly = TRUE
    /\ adapter = "none"
    /\ lastReq = NoReq
    /\ inflight = 0

VerifyInit ==
    /\ config = [apiProvider |-> "gemini", keys |-> [p \in Providers |-> ""],
                 corsProxy |-> "", endpoints |-> [p \in Providers |-> ""]]
    /\ API_KEY = ""
    /\ NoCall
    /\ verify = NoVerify
    /\ resolved = NoResolved
    /\ editor = NoEditor
    /\ res = NoRes
    /\ calls = NoCalls
    /\ NoScreens

verifyConnection ==
    /\ verify.pc = "idle"
    /\ \E provider \in Providers, key \in VerifyKeys, endpoint \in VerifyEndpoints, proxy \in Proxies :
         LET step == verifyConnectionEntered(provider, key, endpoint, proxy)
         IN  verify' = [pc |-> step.pc, provider |-> provider, key |-> key,
                        endpoint |-> endpoint, proxy |-> proxy, url |-> step.url,
                        calls |-> IF step.pc = "wait" THEN 1 ELSE 0, resp |-> NoResp,
                        returned |-> step.returned, value |-> step.value, error |-> step.error]
    /\ UNCHANGED <<genVars, resolved, editor, res, calls, screens>>

VerifyResponded ==
    /\ verify.pc = "wait"
    /\ \E r \in VerifyResponses(verify.provider) :
         LET step == verifyConnectionResponded(verify.provider, r)
         IN  verify' = [verify EXCEPT !.pc = step.pc, !.resp = r, !.returned = step.returned,
                                      !.value = step.value, !.error = step.error]
    /\ UNCHANGED <<genVars, resolved, editor, res, calls, screens>>

VerifyNext ==
    \/ verifyConnection
    \/ VerifyResponded

VerifySpec == VerifyInit /\ [][VerifyNext]_vars

-----------------------------------------------------------------------------
(* getApiKey *)

\* config.keys: each provider's key set, empty or absent, or no keys object
AnyKeyMaps ==
    { [p \in Providers |-> IF g[p] = "set" THEN KeyOf(p) ELSE g[p]] :
        g \in [Providers -> {"set", "", Undefined}] } \cup {NoKeys}

\* process.env.API_KEY
AnyEnvKeys == {Undefined, "", "env-key"}

KeyInit ==
    /\ config \in [apiProvider : Providers, keys : AnyKeyMaps, corsProxy : {""},
                   endpoints : {[p \in Providers |-> ""]}]
    /\ API_KEY \in AnyEnvKeys
    /\ NoCall
    /\ verify = NoVerify
    /\ resolved = NoResolved
    /\ editor = NoEditor
    /\ res = NoRes
    /\ calls = NoCalls
    /\ NoScreens

getApiKeyCalled ==
    /\ resolved.pc = "idle"
    /\ \E providerOverride \in Providers \cup {Undefined} :
         resolved' = [pc |-> "done", providerOverride |-> providerOverride,
                      key |-> getApiKey(config, providerOverride)]
    /\ UNCHANGED <<genVars, verify, editor, res, calls, screens>>

KeyNext == getApiKeyCalled

KeySpec == KeyInit /\ [][KeyNext]_vars

-----------------------------------------------------------------------------
(* The configuration editor: entering keys and verifying them *)

MaxFlights == 2

EditorProviders == {"nvidia", "qiniu"}

EditorKeys == {"", "key-1", "key-2"}

\* a verifyConnection call under way: the provider and the key it was given
Flight(id, provider, key) == [id |-> id, provider |-> provider, key |-> key]

FreeIds(ed) == (1..MaxFlights) \ { f.id : f \in ed.flights }

\* handleVerify up to its await
handleVerify(ed, provider) ==
    IF Falsy(ed.keys[provider]) THEN ed
    ELSE [ed EXCEPT !.verifying[provider] = "verifying",
                    !.flights = @ \cup {Flight(CHOOSE i \in FreeIds(ed) : \A j \in FreeIds(ed) : i <= j,
                                               provider, ed.keys[provider])}]

\* handleVerify from the answer of verifyConnection on
handleVerifyAnswered(ed, flight, isSuccess) ==
    [ed EXCEPT !.verifying[flight.provider] = IF isSuccess THEN "success" ELSE "error",
               !.flights = @ \ {flight},
               !.verified[flight.provider] = IF isSuccess THEN flight.key ELSE @]

handleKeyChange(ed, provider, val) ==
    [ed EXCEPT !.keys[provider] = val, !.verifying[provider] = "idle"]

EditorInit ==
    /\ config = [apiProvider |-> "gemini", keys |-> [p \in Providers |-> ""],
                 corsProxy |-> "", endpoints |-> [p \in Providers |-> ""]]
    /\ API_KEY = ""
    /\ NoCall
    /\ verify = NoVerify
    /\ resolved = NoResolved
    /\ editor = [open |-> TRUE,
                 keys |-> [p \in EditorProviders |-> ""],
                 verifying |-> [p \in EditorProviders |-> "idle"],
                 flights |-> {},
                 verified |-> [p \in EditorProviders |-> ""]]
    /\ res = NoRes
    /\ calls = NoCalls
    /\ NoScreens

\* the key field of a provider is edited
KeyChanged ==
    /\ \E provider \in EditorProviders :
         \E val \in EditorKeys \ {editor.keys[provider]} :
            editor' = handleKeyChange(editor, provider, val)
    /\ UNCHANGED <<genVars, verify, resolved, res, calls, screens>>

\* the verify button of a provider is pressed; it is disabled without a key
\* and while the status is 'verifying'
VerifyPressed ==
    /\ \E provider \in EditorProviders :
         /\ editor.keys[provider] # ""
         /\ editor.verifying[provider] # "verifying"
         /\ FreeIds(editor) # {}
         /\ editor' = handleVerify(editor, provider)
    /\ UNCHANGED <<genVars, verify, resolved, res, calls, screens>>

\* a verifyConnection call resolves
VerifyAnswered ==
    /\ \E flight \in editor.flights, isSuccess \in BOOLEAN :
         editor' = handleVerifyAnswered(editor, flight, isSuccess)
    /\ UNCHANGED <<genVars, verify, resolved, res, calls, screens>>

EditorNext ==
    \/ KeyChanged
    \/ VerifyPressed
    \/ VerifyAnswered

EditorSpec == EditorInit /\ [][EditorNext]_vars

-----------------------------------------------------------------------------
(* The resolution: aspect ratio of the Gemini adapter, formatted string of
   the space adapter *)

\* A resolution string is `${w}x${h}` when label is "", and the labelled
\* form `${w}x${h} (${label})` otherwise.
Resolution(w, h, label) == [w |-> w, h |-> h, label |-> label]

Raw(w, h) == Resolution(w, h, "")

Sizes == {512, 576, 720, 832, 864, 1024, 1152, 1248, 1280, 1344}

Labels == {"", "1:1", "3:4", "4:3", "16:9", "9:16", "3:2"}

Resolutions == { Resolution(w, h, l) : w \in Sizes, h \in Sizes, l \in Labels }

\* the values of the Resolution type
Supported ==
    { Raw(1024, 1024), Raw(864, 1152), Raw(1152, 864), Raw(1248, 832), Raw(832, 1248),
      Raw(1280, 720), Raw(720, 1280), Raw(1344, 576), Raw(576, 1344) }

\* resolution.includes(ratio): the digits and the "x" hold no colon
includes(resolution, ratio) == resolution.label = ratio

\* (mutant) the portrait and the landscape ratio are exchanged
aspectRatioOfSwapped(resolution) ==
    IF includes(resolution, "3:4") \/ resolution = Raw(864, 1152) THEN "4:3"
    ELSE IF includes(resolution, "4:3") \/ resolution = Raw(1152, 864) THEN "3:4"
    ELSE IF includes(resolution, "16:9") \/ resolution = Raw(1280, 720) THEN "16:9"
    ELSE IF includes(resolution, "9:16") \/ resolution = Raw(720, 1280) THEN "9:16"
    ELSE "1:1"

\* the aspectRatio generateWithGemini sends
aspectRatioOf(resolution) ==
    IF includes(resolution, "3:4") \/ resolution = Raw(864, 1152) THEN "3:4"
    ELSE IF includes(resolution, "4:3") \/ resolution = Raw(1152, 864) THEN "4:3"
    ELSE IF includes(resolution, "16:9") \/ resolution = Raw(1280, 720) THEN "16:9"
    ELSE IF includes(resolution, "9:16") \/ resolution = Raw(720, 1280) THEN "9:16"
    ELSE "1:1"

\* the string `${w}x${h} ( ${ratio} )`
Formatted(w, h, ratio) == [w |-> w, h |-> h, ratio |-> ratio]

\* map[res] of a key the table does not hold
NotFormatted == [w |-> 0, h |-> 0, ratio |-> Undefined]

\* (mutant) map[res] without the default
formatResForHFNoDefault(resolution) ==
    CASE resolution = Raw(1024, 1024) -> Formatted(1024, 1024, "1:1")
      [] resolution = Raw(864, 1152) -> Formatted(864, 1152, "3:4")
      [] resolution = Raw(1152, 864) -> Formatted(1152, 864, "4:3")
      [] resolution = Raw(1248, 832) -> Formatted(1248, 832, "3:2")
      [] resolution = Raw(832, 1248) -> Formatted(832, 1248, "2:3")
      [] resolution = Raw(1280, 720) -> Formatted(1280, 720, "16:9")
      [] resolution = Raw(720, 1280) -> Formatted(720, 1280, "9:16")
      [] resolution = Raw(1344, 576) -> Formatted(1344, 576, "21:9")
      [] resolution = Raw(576, 1344) -> Formatted(576, 1344, "9:21")
      [] OTHER -> NotFormatted

formatResForHF(resolution) ==
    CASE resolution = Raw(1024, 1024) -> Formatted(1024, 1024, "1:1")
      [] resolution = Raw(864, 1152) -> Formatted(864, 1152, "3:4")
      [] resolution = Raw(1152, 864) -> Formatted(1152, 864, "4:3")
      [] resolution = Raw(1248, 832) -> Formatted(1248, 832, "3:2")
      [] resolution = Raw(832, 1248) -> Formatted(832, 1248, "2:3")
      [] resolution = Raw(1280, 720) -> Formatted(1280, 720, "16:9")
      [] resolution = Raw(720, 1280) -> Formatted(720, 1280, "9:16")
      [] resolution = Raw(1344, 576) -> Formatted(1344, 576, "21:9")
      [] resolution = Raw(576, 1344) -> Formatted(576, 1344, "9:21")
      [] OTHER -> Formatted(1024, 1024, "1:1")

ResInit ==
    /\ config = [apiProvider |-> "gemini", keys |-> [p \in Providers |-> ""],
                 corsProxy |-> "", endpoints |-> [p \in Providers |-> ""]]
    /\ API_KEY = ""
    /\ NoCall
    /\ verify = NoVerify
    /\ resolved = NoResolved
    /\ editor = NoEditor
    /\ res = NoRes
    /\ calls = NoCalls
    /\ NoScreens

\* both adapters are given one resolution
resolutionConverted ==
    /\ res = NoRes
    /\ \E resolution \in Resolutions :
         res' = [pc |-> "done", resolution |-> resolution,
                 aspectRatio |-> aspectRatioOf(resolution),
                 formattedRes |-> formatResForHF(resolution)]
    /\ UNCHANGED <<genVars, verify, resolved, editor, calls, screens>>

ResNext == resolutionConverted

ResSpec == ResInit /\ [][ResNext]_vars

-----------------------------------------------------------------------------
(* Two generateImage calls at the same time: each has its own closure, the
   steps of the two interleave *)

Callers == {1, 2}

\* the providers of the two calls
PairProviders ==
    { <<"huggingface", "huggingface">>, <<"huggingface", "modelscope">>,
      <<"modelscope", "modelscope">> }

\* the answers the two calls are given
PairOffline == NetFail

PairRejected == Http(500, InternalError)

PairHeartbeat == Stream(<<CommentLine>>)

PairStreamImage ==
    Stream(<<DataLine(Parsed(JArray(<<JObj(Image("https://x/y.png")), JObj(NoImage)>>)))>>)

PairPending == Json([task_status |-> "PENDING", output_images |-> <<>>, message |-> Undefined])

PairSucceeded ==
    Json([task_status |-> "SUCCEED", output_images |-> <<"https://x/y.png">>,
          message |-> Undefined])

PairFailed == Json([task_status |-> "FAILED", output_images |-> <<>>, message |-> "bad prompt"])

PairSubmitResponses(provider) ==
    IF provider = "huggingface" THEN {PairOffline, Json([event_id |-> "id-1"])}
    ELSE {PairRejected, Json([task_id |-> "id-1"])}

PairStatusResponses(provider) ==
    IF provider = "huggingface"
    THEN {PairOffline, PairRejected, PairHeartbeat, PairStreamImage}
    ELSE {PairRejected, PairPending, PairSucceeded, PairFailed}

\* (mutant) one counter at module level counts the attempts of both calls
counterOfShared(cs, i) == cs[1].attempts + cs[2].attempts

\* `let attempts = 0` is local to the call
counterOf(cs, i) == cs[i].attempts

callSubmitted(provider, r) ==
    IF provider = "huggingface" THEN generateWithHuggingFaceSubmitted(r)
    ELSE generateWithModelScopeSubmitted(r)

callPolled(provider, r, att) ==
    IF provider = "huggingface" THEN pollResult(r, att)
    ELSE generateWithModelScopePolled(r, att)

callWake(provider, att) ==
    IF provider = "huggingface" THEN pollResultWake(att)
    ELSE Goto("poll", att)

\* call i takes the step
Stepped(cs, i, step) ==
    [cs EXCEPT ![i].pc = step.pc, ![i].attempts = step.attempts,
               ![i].result = step.result, ![i].error = step.error]

\* what the remote side has sent to call i, kept by the remote side: the
\* last answer, and how many of its status answers said "not ready yet"
Answered(cs, i, r, status) ==
    [cs EXCEPT ![i].last = r,
               ![i].waits = IF status /\ r \in {PairHeartbeat, PairPending} THEN @ + 1 ELSE @]

PairInit ==
    /\ config = [apiProvider |-> "gemini", keys |-> [p \in Providers |-> ""],
                 corsProxy |-> "", endpoints |-> [p \in Providers |-> ""]]
    /\ API_KEY = ""
    /\ NoCall
    /\ verify = NoVerify
    /\ resolved = NoResolved
    /\ editor = NoEditor
    /\ res = NoRes
    /\ NoScreens
    /\ \E ps \in PairProviders :
         calls = [i \in Callers |->
                    [provider |-> ps[i], pc |-> "start", attempts |-> 0, result |-> NoResult,
                     error |-> NoError, last |-> NoResp, waits |-> 0]]

callStarted ==
    /\ \E i \in Callers :
         /\ calls[i].pc = "start"
         /\ calls' = Stepped(calls, i, Goto("submit", 0))
    /\ UNCHANGED <<genVars, verify, resolved, editor, res, screens>>

callSubmitAnswered ==
    /\ \E i \in Callers :
         /\ calls[i].pc = "submit"
         /\ \E r \in PairSubmitResponses(calls[i].provider) :
              calls' = Answered(Stepped(calls, i, callSubmitted(calls[i].provider, r)),
                                i, r, FALSE)
    /\ UNCHANGED <<genVars, verify, resolved, editor, res, screens>>

callStatusAnswered ==
    /\ \E i \in Callers :
         /\ calls[i].pc = "poll"
         /\ \E r \in PairStatusResponses(calls[i].provider) :
              calls' = Answered(Stepped(calls, i,
                                        callPolled(calls[i].provider, r, counterOf(calls, i))),
                                i, r, TRUE)
    /\ UNCHANGED <<genVars, verify, resolved, editor, res, screens>>

callWoke ==
    /\ \E i \in Callers :
         /\ calls[i].pc = "sleep"
         /\ calls' = Stepped(calls, i, callWake(calls[i].provider, counterOf(calls, i)))
    /\ UNCHANGED <<genVars, verify, resolved, editor, res, screens>>

PairNext ==
    \/ callStarted
    \/ callSubmitAnswered
    \/ callStatusAnswered
    \/ callWoke

PairSpec == PairInit /\ [][PairNext]_vars

-----------------------------------------------------------------------------
(* enhancePromptWithGemini: the prompt helper *)

\* a text is the sequence of its characters
Whitespace == {" ", "\n"}

RECURSIVE trimStart(_)
trimStart(s) == IF s # <<>> /\ Head(s) \in Whitespace THEN trimStart(Tail(s)) ELSE s

RECURSIVE trimEnd(_)
trimEnd(s) ==
    IF s # <<>> /\ s[Len(s)] \in Whitespace THEN trimEnd(SubSeq(s, 1, Len(s) - 1)) ELSE s

\* String.prototype.trim
trim(s) == trimEnd(trimStart(s))

\* the prompts the helper is called with
BasePrompts == { <<"s", "w">>, <<" ", "s">> }

\* what ai.models.generateContent settles with: a rejection, a response
\* without text, or a response whose text is the given characters
SdkRejected == [kind |-> "reject", text |-> <<>>]

NoText == [kind |-> "notext", text |-> <<>>]

Completion(text) == [kind |-> "text", text |-> text]

Completions ==
    { SdkRejected, NoText, Completion(<<>>), Completion(<<"k">>),
      Completion(<<" ", "k", " ", "n", "\n">>), Completion(<<" ", "\n">>) }

\* not yet settled
NoCompletion == [kind |-> "none", text |-> <<>>]

EReturn(value, apiKey, requests) ==
    [pc |-> "done", value |-> value, thrown |-> FALSE, apiKey |-> apiKey, requests |-> requests]

EThrow(apiKey, requests) ==
    [pc |-> "done", value |-> <<>>, thrown |-> TRUE, apiKey |-> apiKey, requests |-> requests]

EAwait(apiKey) ==
    [pc |-> "await", value |-> <<>>, thrown |-> FALSE, apiKey |-> apiKey, requests |-> 1]

\* getGeminiClient: TRUE when it hands out a client, FALSE when it throws
getGeminiClient(apiKey) == ~Falsy(apiKey)

\* (mutant) the catch block lets the error through
enhanceCatchRethrows(step, basePrompt) == step

\* the catch block: any error inside the try returns the base prompt
enhanceCatch(step, basePrompt) ==
    IF step.thrown THEN EReturn(basePrompt, step.apiKey, step.requests) ELSE step

\* (mutant) the key of the selected provider is used
enhanceEnteredSelectedKey(basePrompt, cfg) ==
    enhanceCatch(
        LET apiKey == getApiKey(cfg, Undefined)
        IN  IF Falsy(apiKey) THEN EReturn(basePrompt, apiKey, 0)
            ELSE IF ~getGeminiClient(apiKey) THEN EThrow(apiKey, 0)
            ELSE EAwait(apiKey),
        basePrompt)

\* the call up to the generateContent request
enhanceEntered(basePrompt, cfg) ==
    enhanceCatch(
        LET apiKey == getApiKey(cfg, "gemini")
        IN  IF Falsy(apiKey) THEN EReturn(basePrompt, apiKey, 0)
            ELSE IF ~getGeminiClient(apiKey) THEN EThrow(apiKey, 0)
            ELSE EAwait(apiKey),
        basePrompt)

\* the call from the settled request to its return
enhanceAnswered(basePrompt, e, response) ==
    enhanceCatch(
        IF response.kind = "reject" THEN EThrow(e.apiKey, e.requests)
        ELSE IF response.kind = "notext" \/ response.text = <<>>
             THEN EReturn(basePrompt, e.apiKey, e.requests)
        ELSE EReturn(trim(response.text), e.apiKey, e.requests),
        basePrompt)

\* the key maps in which only Gemini and NVIDIA may hold a key
EnhanceKeyMaps ==
    { k \in AnyKeyMaps : k # NoKeys => \A p \in Providers \ {"gemini", "nvidia"} : k[p] = "" }

EnhanceRecord(basePrompt, step, response) ==
    [pc |-> step.pc, basePrompt |-> basePrompt, value |-> step.value, thrown |-> step.thrown,
     apiKey |-> step.apiKey, requests |-> step.requests, response |-> response]

EnhanceInit ==
    /\ config \in [apiProvider : {"gemini", "nvidia"}, keys : EnhanceKeyMaps, corsProxy : {""},
                   endpoints : {[p \in Providers |-> ""]}]
    /\ API_KEY \in AnyEnvKeys
    /\ NoCall
    /\ verify = NoVerify
    /\ resolved = NoResolved
    /\ editor = NoEditor
    /\ res = NoRes
    /\ calls = NoCalls
    /\ enhance = NoEnhance
    /\ app = NoApp
    /\ design = NoDesign
    /\ modal = NoModal

enhancePromptWithGemini ==
    /\ enhance.pc = "idle"
    /\ \E basePrompt \in BasePrompts :
         enhance' = EnhanceRecord(basePrompt, enhanceEntered(basePrompt, config), NoCompletion)
    /\ UNCHANGED <<genVars, verify, resolved, editor, res, calls, app, design, modal>>

EnhanceAnswered ==
    /\ enhance.pc = "await"
    /\ \E response \in Completions :
         enhance' = EnhanceRecord(enhance.basePrompt,
                                  enhanceAnswered(enhance.basePrompt, enhance, response),
                                  response)
    /\ UNCHANGED <<genVars, verify, resolved, editor, res, calls, app, design, modal>>

EnhanceNext ==
    \/ enhancePromptWithGemini
    \/ EnhanceAnswered

EnhanceSpec == EnhanceInit /\ [][EnhanceNext]_vars

-----------------------------------------------------------------------------
(* The App screen (src/App.tsx): the seed field and handleGenerate *)

\* JavaScript null, for a string-valued state
Null == "null"

DefaultSeed == 42

\* the digits of parseInt, in the order of their values
DigitChars == <<"0", "1", "2", "3", "4", "5", "6", "7", "8", "9", "a", "b", "c", "d", "e", "f">>

IsDigit(c, radix) == \E i \in 1..radix : DigitChars[i] = c

DigitValue(c) == (CHOOSE i \in 1..16 : DigitChars[i] = c) - 1

\* the longest run of digits a text starts with
RECURSIVE digitsPrefix(_, _)
digitsPrefix(s, radix) ==
    IF s # <<>> /\ IsDigit(Head(s), radix)
    THEN <<Head(s)>> \o digitsPrefix(Tail(s), radix)
    ELSE <<>>

RECURSIVE valueOf(_, _)
valueOf(ds, radix) ==
    IF ds = <<>> THEN 0
    ELSE valueOf(SubSeq(ds, 1, Len(ds) - 1), radix) * radix + DigitValue(ds[Len(ds)])

\* a JavaScript number: NaN or an integer (-0 is 0: both are falsy)
NaN == [nan |-> TRUE, n |-> 0]

Num(n) == [nan |-> FALSE, n |-> n]

\* parseInt(str) without a radix: leading whitespace, a sign, a 0x prefix,
\* then the digits up to the first character that is none
parseInt(str) ==
    LET s1 == trimStart(str)
        neg == s1 # <<>> /\ Head(s1) = "-"
        s2 == IF s1 # <<>> /\ Head(s1) \in {"-", "+"} THEN Tail(s1) ELSE s1
        hex == Len(s2) >= 2 /\ s2[1] = "0" /\ s2[2] \in {"x", "X"}
        radix == IF hex THEN 16 ELSE 10
        s3 == IF hex THEN SubSeq(s2, 3, Len(s2)) ELSE s2
        ds == digitsPrefix(s3, radix)
    IN  IF ds = <<>> THEN NaN
        ELSE Num(IF neg THEN 0 - valueOf(ds, radix) ELSE valueOf(ds, radix))

\* Number.prototype.toString of an integer
RECURSIVE natToString(_)
natToString(n) ==
    IF n < 10 THEN <<DigitChars[n + 1]>>
    ELSE natToString(n \div 10) \o <<DigitChars[(n % 10) + 1]>>

toString(n) == IF n < 0 THEN <<"-">> \o natToString(0 - n) ELSE natToString(n)

\* (mutant) only a field that holds no number falls back to the default
orDefaultOnlyNaN(v, d) == IF v.nan THEN d ELSE v.n

\* `v || d` on a number: NaN and 0 are falsy
orDefault(v, d) == IF v.nan \/ v.n = 0 THEN d ELSE v.n

\* what a field of type number can hold: nothing or a decimal number
SeedInputs ==
    { <<>>, <<"0">>, <<"4", "2">>, <<"7">>, <<"-", "5">>, <<"-", "0">>, <<"0", "0", "7">>,
      <<"3", ".", "7">>, <<"1", "e", "3">> }

\* Math.random() is a number of [0, 1): random / RandomScale
RandomScale == 1000000

Randoms == {0, 1, 123456, RandomScale - 1}

\* Math.floor(Math.random() * 1000000); RandomScale divides the factor
randomSeed(random) == random * (1000000 \div RandomScale)

\* (mutant) with random seed on the field keeps what it held
usedSeedNotWritten(seedInput, isRandomSeed, random) ==
    [usedSeed |-> IF isRandomSeed THEN randomSeed(random)
                  ELSE orDefault(parseInt(seedInput), DefaultSeed),
     seedInput |-> seedInput]

\* the seed handleGenerate uses and the seed field it leaves
usedSeedOf(seedInput, isRandomSeed, random) ==
    LET usedSeed == IF isRandomSeed THEN randomSeed(random)
                    ELSE orDefault(parseInt(seedInput), DefaultSeed)
    IN  [usedSeed |-> usedSeed,
         seedInput |-> IF isRandomSeed THEN toString(usedSeed) ELSE seedInput]

\* the error message shown: none, or a text given by its pieces
NoMsg == [set |-> FALSE, text |-> <<>>]

Msg(text) == [set |-> TRUE, text |-> text]

\* what the awaited call settles with: a string, or a rejection: an object
\* with its message (a text, empty when it has none) and its JSON form, the
\* value null or undefined, or an object whose message is not a string
Resolved(value) ==
    [ok |-> TRUE, value |-> value, shape |-> "object", message |-> <<>>, json |-> <<>>]

Failure(message, json) ==
    [ok |-> FALSE, value |-> "", shape |-> "object", message |-> message, json |-> json]

RejectedWith(shape) ==
    [ok |-> FALSE, value |-> "", shape |-> shape, message |-> <<>>, json |-> <<>>]

GenerateOutcomes ==
    { Resolved("data:image/jpeg;base64,AAAA"), Resolved(""),
      Failure(<<"got status ", "429">>, <<"{}">>),
      Failure(<<"API_KEY", " not valid">>, <<"{}">>),
      Failure(<<"No image data returned from Gemini">>, <<"{}">>),
      Failure(<<>>, <<"{}">>),
      Failure(<<>>, <<"{\"code\":", "RESOURCE_EXHAUSTED", "}">>),
      RejectedWith("nullish"),
      RejectedWith("numberMessage") }

msgIncludes(text, piece) == \E i \in 1..Len(text) : text[i] = piece

\* the three fixed texts of the catch block, by what they say
DefaultUserMsg == <<"generation failed, check the API Key or retry">>

QuotaUserMsg == <<"API quota used up (429)">>

KeyUserMsg == <<"API Key invalid">>

\* the message the catch block shows for an error
userMsgOf(e) ==
    LET detailedMsg == IF e.message # <<>> THEN e.message ELSE e.json
    IN  IF \/ msgIncludes(detailedMsg, "429")
           \/ msgIncludes(detailedMsg, "quota")
           \/ msgIncludes(detailedMsg, "RESOURCE_EXHAUSTED")
        THEN QuotaUserMsg
        ELSE IF msgIncludes(detailedMsg, "API_KEY") THEN KeyUserMsg
        ELSE IF e.message # <<>> THEN e.message
        ELSE DefaultUserMsg

GenerationState(isGenerating, progress, imageUrl, seed) ==
    [isGenerating |-> isGenerating, progress |-> progress, imageUrl |-> imageUrl, seed |-> seed]

\* the generate button is disabled
generateDisabled(a) == a.generationState.isGenerating

\* (mutant) starting a generation clears neither the picture nor the error
handleGenerateStartedKeepsImage(a, random) ==
    LET u == usedSeedOf(a.seedInput, a.isRandomSeed, random)
    IN  [a EXCEPT !.generationState = GenerationState(TRUE, 0, @.imageUrl, @.seed),
                  !.usedSeed = u.usedSeed,
                  !.seedInput = u.seedInput,
                  !.interval = TRUE,
                  !.pending = @ + 1]

\* handleGenerate up to the await
handleGenerateStarted(a, random) ==
    LET u == usedSeedOf(a.seedInput, a.isRandomSeed, random)
    IN  [a EXCEPT !.generationState = GenerationState(TRUE, 0, Null, @.seed),
                  !.errorMsg = NoMsg,
                  !.usedSeed = u.usedSeed,
                  !.seedInput = u.seedInput,
                  !.interval = TRUE,
                  !.pending = @ + 1]

\* the catch block itself throws: e.message of null or undefined, or
\* detailedMsg.includes of a message that is not a string
catchThrows(e) == e.shape \in {"nullish", "numberMessage"}

\* the catch block of handleGenerate; when it throws, neither the message
\* nor the generation state is set
handleGenerateCatch(a, e) ==
    IF catchThrows(e) THEN a
    ELSE [a EXCEPT !.errorMsg = Msg(userMsgOf(e)),
                   !.generationState = GenerationState(FALSE, 0, @.imageUrl, @.seed)]

\* handleGenerate from the settled call to its end; the finally block
\* clears the interval on either path
handleGenerateSettled(a, outcome) ==
    LET empty == Failure(<<"Generation returned empty result">>, <<"{}">>)
        after == IF ~outcome.ok THEN handleGenerateCatch(a, outcome)
                 ELSE IF outcome.value = "" THEN handleGenerateCatch(a, empty)
                 ELSE [a EXCEPT !.generationState =
                                    GenerationState(FALSE, 100, outcome.value, a.usedSeed)]
    IN  [after EXCEPT !.interval = FALSE, !.pending = @ - 1]

\* one firing of the progress interval
progressStep(a) ==
    IF a.generationState.progress >= 90 THEN a
    ELSE [a EXCEPT !.generationState.progress = @ + 5]

AppInit ==
    /\ config = [apiProvider |-> "gemini", keys |-> [p \in Providers |-> ""],
                 corsProxy |-> "", endpoints |-> [p \in Providers |-> ""]]
    /\ API_KEY = ""
    /\ NoCall
    /\ verify = NoVerify
    /\ resolved = NoResolved
    /\ editor = NoEditor
    /\ res = NoRes
    /\ calls = NoCalls
    /\ enhance = NoEnhance
    /\ app = [seedInput |-> <<"4", "2">>, isRandomSeed |-> FALSE,
              generationState |-> GenerationState(FALSE, 0, Null, 42),
              errorMsg |-> NoMsg, interval |-> FALSE, pending |-> 0, usedSeed |-> 42]
    /\ design = NoDesign
    /\ modal = NoModal

\* typing into the seed field, which is disabled while random seed is on
setSeedInput ==
    /\ ~app.isRandomSeed
    /\ \E value \in SeedInputs \ {app.seedInput} : app' = [app EXCEPT !.seedInput = value]
    /\ UNCHANGED <<genVars, verify, resolved, editor, res, calls, enhance, design, modal>>

setIsRandomSeed ==
    /\ app' = [app EXCEPT !.isRandomSeed = ~@]
    /\ UNCHANGED <<genVars, verify, resolved, editor, res, calls, enhance, design, modal>>

handleGenerate ==
    /\ ~generateDisabled(app)
    /\ \E random \in Randoms : app' = handleGenerateStarted(app, random)
    /\ UNCHANGED <<genVars, verify, resolved, editor, res, calls, enhance, design, modal>>

ProgressTick ==
    /\ app.interval
    /\ app.generationState.progress < 90
    /\ app' = progressStep(app)
    /\ UNCHANGED <<genVars, verify, resolved, editor, res, calls, enhance, design, modal>>

GenerateSettled ==
    /\ app.pending > 0
    /\ \E outcome \in GenerateOutcomes : app' = handleGenerateSettled(app, outcome)
    /\ UNCHANGED <<genVars, verify, resolved, editor, res, calls, enhance, design, modal>>

AppNext ==
    \/ setSeedInput
    \/ setIsRandomSeed
    \/ handleGenerate
    \/ ProgressTick
    \/ GenerateSettled

AppSpec == AppInit /\ [][AppNext]_vars

\* the interval of a running generation keeps firing; nothing makes the
\* awaited call settle
AppFairSpec == AppSpec /\ WF_vars(ProgressTick)

-----------------------------------------------------------------------------
(* The settings modal (src/unnamed/part_000): the local copy of the config, *)
(* the category list and the drag state                                     *)

MaxAdds == 1

MaxItems == 2

\* a null index state; indices count from 0 as in the source
NullIndex == 0 - 1

Category(id, label, items) == [id |-> id, label |-> label, items |-> items]

\* an array entry that is undefined
UndefinedCat == Category(<<Undefined>>, <<Undefined>>, <<>>)

\* array.splice(i, 1): the array left and the elements removed
spliceRest(list, i) ==
    IF i < Len(list) THEN SubSeq(list, 1, i) \o SubSeq(list, i + 2, Len(list)) ELSE list

spliceRemoved(list, i) == IF i < Len(list) THEN <<list[i + 1]>> ELSE <<>>

\* array.splice(i, 0, x)
spliceInsert(list, i, x) ==
    LET k == IF i < Len(list) THEN i ELSE Len(list)
    IN  SubSeq(list, 1, k) \o <<x>> \o SubSeq(list, k + 1, Len(list))

\* const [moved] = array.splice(i, 1), for categories
firstOrUndefined(removed) == IF removed = <<>> THEN UndefinedCat ELSE removed[1]

Max(a, b) == IF a > b THEN a ELSE b

\* the entries of an array
Entries(list) == { list[i] : i \in 1..Len(list) }

\* the provider buttons of the modal that are pressed
ModalProviders == {"gemini", "nvidia", "aliyun"}

ModalConfig(keys, userApiKey, categories) ==
    [apiProvider |-> "nvidia", keys |-> keys, userApiKey |-> userApiKey, categories |-> categories]

\* the keys object {}: every provider's key reads undefined
EmptyKeys == [p \in ModalProviders |-> Undefined]

\* a keys object holding the key of one provider; a config without a keys
\* object has NoKeys
KeysOf(provider, key) == [EmptyKeys EXCEPT ![provider] = key]

\* the verification statuses {}: every provider's status reads undefined
NoStatus == [p \in ModalProviders |-> Undefined]

NoFlights == [p \in ModalProviders |-> 0]

ModalKeys == {"", "key-1"}

\* an array entry that is null
NullCat == Category(<<Null>>, <<Null>>, <<>>)

\* JSON.parse(JSON.stringify(cfg)): an undefined entry of an array comes
\* back as null
jsonCopy(cfg) ==
    [cfg EXCEPT !.categories =
        [i \in 1..Len(@) |->
            IF @[i] = UndefinedCat THEN NullCat
            ELSE [@[i] EXCEPT !.items =
                     [k \in 1..Len(@) |-> IF @[k] = <<Undefined>> THEN <<Null>> ELSE @[k]]]]]

\* the effect that runs when the modal opens: a deep copy of the config, an
\* existing keys object, a key saved the old way moved to the selected provider
mergedConfig(cfg) ==
    LET copy == jsonCopy(cfg)
        withKeys == IF copy.keys = NoKeys THEN [copy EXCEPT !.keys = EmptyKeys] ELSE copy
    IN  IF withKeys.userApiKey # "" /\ withKeys.keys = EmptyKeys
        THEN [withKeys EXCEPT !.keys = KeysOf(withKeys.apiProvider, withKeys.userApiKey)]
        ELSE withKeys

openEffect(m) ==
    [m EXCEPT !.localConfig = mergedConfig(m.config), !.shared = FALSE,
              !.verifying = NoStatus]

\* the category list of the local copy is replaced; objects changed in place
\* are changed in the application's config as well while the two are shared
withCategories(m, newCats, inPlace) ==
    [m EXCEPT !.localConfig.categories = newCats,
              !.config.categories = IF inPlace /\ m.shared THEN newCats ELSE @]

\* the open component renders: without a keys object
\* localConfig.keys[activeProviderId] throws, and an undefined or null entry
\* of the list throws in cat.id
rendered(m) ==
    [m EXCEPT !.crashed =
        \/ m.localConfig.keys = NoKeys
        \/ \E i \in 1..Len(m.localConfig.categories) :
              m.localConfig.categories[i] \in {UndefinedCat, NullCat}]

handleAddCategoryTo(m, newCatName) ==
    IF trim(newCatName) = <<>> THEN m
    ELSE [withCategories(m, Append(m.localConfig.categories,
                                   Category(<<"cat_", m.now>>, newCatName, <<>>)), FALSE)
            EXCEPT !.selectedCatIndex = Len(m.localConfig.categories)]

handleDeleteCategoryAt(m, index) ==
    LET newCats == spliceRest(m.localConfig.categories, index)
    IN  [withCategories(m, newCats, FALSE)
            EXCEPT !.selectedCatIndex =
                       IF @ >= Len(newCats) THEN Max(0, Len(newCats) - 1) ELSE @]

\* newCats[selectedCatIndex] is a category object
HasActive(m) ==
    /\ m.selectedCatIndex < Len(m.localConfig.categories)
    /\ m.localConfig.categories[m.selectedCatIndex + 1] \notin {UndefinedCat, NullCat}

activeItems(m) == m.localConfig.categories[m.selectedCatIndex + 1].items

withActiveItems(m, items) ==
    withCategories(m, [m.localConfig.categories EXCEPT ![m.selectedCatIndex + 1].items = items],
                   TRUE)

\* without a category at the index the handler throws and sets nothing
handleAddItemTo(m, newItemName) ==
    IF trim(newItemName) = <<>> \/ Len(m.localConfig.categories) = 0 THEN m
    ELSE IF ~HasActive(m) THEN m
    ELSE withActiveItems(m, Append(activeItems(m), newItemName))

handleDeleteItemAt(m, itemIndex) ==
    IF ~HasActive(m) THEN m
    ELSE withActiveItems(m, spliceRest(activeItems(m), itemIndex))

\* (mutant) the selected index does not follow the move
handleCatDropKeepsIndex(m, dropIndex) ==
    IF m.draggedCatIndex = NullIndex \/ m.draggedCatIndex = dropIndex THEN m
    ELSE LET d == m.draggedCatIndex
             cats == m.localConfig.categories
             movedCat == firstOrUndefined(spliceRemoved(cats, d))
             newCats == spliceInsert(spliceRest(cats, d), dropIndex, movedCat)
         IN  [withCategories(m, newCats, FALSE) EXCEPT !.draggedCatIndex = NullIndex]

handleCatDropAt(m, dropIndex) ==
    IF m.draggedCatIndex = NullIndex \/ m.draggedCatIndex = dropIndex THEN m
    ELSE LET d == m.draggedCatIndex
             s == m.selectedCatIndex
             cats == m.localConfig.categories
             movedCat == firstOrUndefined(spliceRemoved(cats, d))
             newCats == spliceInsert(spliceRest(cats, d), dropIndex, movedCat)
         IN  [withCategories(m, newCats, FALSE)
                EXCEPT !.selectedCatIndex =
                           IF s = d THEN dropIndex
                           ELSE IF s > d /\ s <= dropIndex THEN s - 1
                           ELSE IF s < d /\ s >= dropIndex THEN s + 1
                           ELSE s,
                       !.draggedCatIndex = NullIndex]

\* an item dragged from past the end leaves `undefined` as the moved item
handleItemDropAt(m, dropIndex) ==
    IF m.draggedItemIndex = NullIndex \/ m.draggedItemIndex = dropIndex THEN m
    ELSE IF ~HasActive(m) THEN m
    ELSE LET d == m.draggedItemIndex
             removed == spliceRemoved(activeItems(m), d)
             movedItem == IF removed = <<>> THEN <<Undefined>> ELSE removed[1]
             items == spliceInsert(spliceRest(activeItems(m), d), dropIndex, movedItem)
         IN  [withActiveItems(m, items) EXCEPT !.draggedItemIndex = NullIndex]

\* localConfig.keys[activeProviderId] || '': the text of the key field, empty
\* while the object holds no such key (without a keys object the render has
\* thrown before any handler can run)
currentKey(m) ==
    IF m.localConfig.keys = NoKeys THEN ""
    ELSE IF Falsy(m.localConfig.keys[m.localConfig.apiProvider]) THEN ""
    ELSE m.localConfig.keys[m.localConfig.apiProvider]

\* verifying[activeProviderId] || 'idle'
verifyState(m) ==
    IF m.verifying[m.localConfig.apiProvider] = Undefined THEN "idle"
    ELSE m.verifying[m.localConfig.apiProvider]

\* a provider button is pressed
setApiProvider(m, provider) == [m EXCEPT !.localConfig.apiProvider = provider]

\* handleKeyChange for the provider the modal is on
modalKeyChange(m, val) ==
    [m EXCEPT !.localConfig.keys[m.localConfig.apiProvider] = val,
              !.verifying[m.localConfig.apiProvider] = "idle"]

\* handleVerify up to its await, for the provider the modal is on
modalVerify(m) ==
    IF Falsy(currentKey(m)) THEN m
    ELSE [m EXCEPT !.verifying[m.localConfig.apiProvider] = "verifying",
                   !.flights[m.localConfig.apiProvider] = @ + 1]

\* verifyConnection resolves for the provider it was called with
modalVerifyAnswered(m, provider, isSuccess) ==
    [m EXCEPT !.verifying[provider] = IF isSuccess THEN "success" ELSE "error",
              !.flights[provider] = @ - 1]

\* handleSave: onSave(localConfig) hands the object itself to the application
handleSaveOf(m) ==
    [m EXCEPT !.config = m.localConfig, !.shared = TRUE, !.isOpen = FALSE]

\* the component is mounted: the local copy is a JSON copy of the config
Modal(cfg, isOpen) ==
    [isOpen |-> isOpen, config |-> cfg, localConfig |-> jsonCopy(cfg), shared |-> FALSE,
     verifying |-> NoStatus, flights |-> NoFlights, selectedCatIndex |-> 0,
     draggedCatIndex |-> NullIndex, draggedItemIndex |-> NullIndex, now |-> 1,
     crashed |-> FALSE]

Cat(name, items) == Category(<<name>>, <<name>>, items)

Item(name) == <<name>>

ModalFrame == UNCHANGED <<genVars, verify, resolved, editor, res, calls, enhance, app, design>>

ModalIdle ==
    /\ config = [apiProvider |-> "gemini", keys |-> [p \in Providers |-> ""],
                 corsProxy |-> "", endpoints |-> [p \in Providers |-> ""]]
    /\ API_KEY = ""
    /\ NoCall
    /\ verify = NoVerify
    /\ resolved = NoResolved
    /\ editor = NoEditor
    /\ res = NoRes
    /\ calls = NoCalls
    /\ enhance = NoEnhance
    /\ app = NoApp
    /\ design = NoDesign

\* the modal is mounted closed over a config with one category
ModalInit ==
    /\ ModalIdle
    /\ \E keys \in {NoKeys, EmptyKeys, KeysOf("nvidia", "key-1")}, userApiKey \in {"", "old-key"} :
         modal = Modal(ModalConfig(keys, userApiKey, <<Cat("color", <<Item("red")>>)>>), FALSE)

Usable == modal.isOpen /\ ~modal.crashed

\* the verifications awaited
FlightCount(m) == m.flights["gemini"] + m.flights["nvidia"] + m.flights["aliyun"]

\* the modal opens: it renders with the local copy it holds, and when that
\* render has not thrown the effect runs and it renders again
ModalOpened ==
    /\ ~modal.isOpen
    /\ LET first == rendered([modal EXCEPT !.isOpen = TRUE])
       IN  modal' = IF first.crashed THEN first ELSE rendered(openEffect(first))
    /\ ModalFrame

onClose ==
    /\ Usable
    /\ modal' = [modal EXCEPT !.isOpen = FALSE]
    /\ ModalFrame

handleSave ==
    /\ Usable
    /\ modal' = handleSaveOf(modal)
    /\ ModalFrame

\* a provider button of the strip is pressed
setApiProviderModal ==
    /\ Usable
    /\ \E provider \in ModalProviders \ {modal.localConfig.apiProvider} :
         modal' = setApiProvider(modal, provider)
    /\ ModalFrame

handleKeyChangeModal ==
    /\ Usable
    /\ \E val \in ModalKeys :
         /\ currentKey(modal) # val
         /\ modal' = modalKeyChange(modal, val)
    /\ ModalFrame

handleVerifyModal ==
    /\ Usable
    /\ ~Falsy(currentKey(modal))
    /\ verifyState(modal) # "verifying"
    /\ FlightCount(modal) < MaxFlights
    /\ modal' = modalVerify(modal)
    /\ ModalFrame

\* the answer comes whether the modal is open or not
VerifyAnsweredModal ==
    /\ ~modal.crashed
    /\ \E provider \in ModalProviders, isSuccess \in BOOLEAN :
         /\ modal.flights[provider] > 0
         /\ modal' = modalVerifyAnswered(modal, provider, isSuccess)
    /\ ModalFrame

handleAddCategory ==
    /\ Usable
    /\ modal.now <= MaxAdds
    /\ \E newCatName \in {<<" ">>, <<"n", " ">>} :
         modal' = rendered([handleAddCategoryTo(modal, newCatName) EXCEPT !.now = @ + 1])
    /\ ModalFrame

handleDeleteCategory ==
    /\ Usable
    /\ \E index \in 0..(Len(modal.localConfig.categories) - 1) :
         modal' = rendered(handleDeleteCategoryAt(modal, index))
    /\ ModalFrame

setSelectedCatIndex ==
    /\ Usable
    /\ \E idx \in 0..(Len(modal.localConfig.categories) - 1) :
         /\ idx # modal.selectedCatIndex
         /\ modal' = [modal EXCEPT !.selectedCatIndex = idx]
    /\ ModalFrame

\* the add button and the field are disabled without an active category
handleAddItem ==
    /\ Usable
    /\ HasActive(modal)
    /\ Len(activeItems(modal)) < MaxItems
    /\ \E newItemName \in {<<" ">>, <<"x">>} :
         modal' = rendered(handleAddItemTo(modal, newItemName))
    /\ ModalFrame

handleDeleteItem ==
    /\ Usable
    /\ HasActive(modal)
    /\ \E itemIndex \in 0..(Len(activeItems(modal)) - 1) :
         modal' = rendered(handleDeleteItemAt(modal, itemIndex))
    /\ ModalFrame

handleCatDragStart ==
    /\ Usable
    /\ \E index \in 0..(Len(modal.localConfig.categories) - 1) :
         /\ index # modal.draggedCatIndex
         /\ modal' = [modal EXCEPT !.draggedCatIndex = index]
    /\ ModalFrame

handleItemDragStart ==
    /\ Usable
    /\ HasActive(modal)
    /\ \E index \in 0..(Len(activeItems(modal)) - 1) :
         /\ index # modal.draggedItemIndex
         /\ modal' = [modal EXCEPT !.draggedItemIndex = index]
    /\ ModalFrame

\* something is dropped on a category row: the row's handler runs whatever
\* was dragged
handleCatDrop ==
    /\ Usable
    /\ \E dropIndex \in 0..(Len(modal.localConfig.categories) - 1) :
         modal' = rendered(handleCatDropAt(modal, dropIndex))
    /\ ModalFrame

handleItemDrop ==
    /\ Usable
    /\ HasActive(modal)
    /\ \E dropIndex \in 0..(Len(activeItems(modal)) - 1) :
         modal' = rendered(handleItemDropAt(modal, dropIndex))
    /\ ModalFrame

\* the modal with its category tab: opened, edited, closed or saved
ModalNext ==
    \/ ModalOpened
    \/ onClose
    \/ handleSave
    \/ handleDeleteCategory
    \/ handleAddItem
    \/ handleDeleteItem
    \/ handleItemDragStart
    \/ handleItemDrop

ModalSpec == ModalInit /\ [][ModalNext]_vars

\* the modal with its environment tab: opened, a provider chosen, its key
\* typed and tested, closed or saved
EnvNext ==
    \/ ModalOpened
    \/ onClose
    \/ handleSave
    \/ setApiProviderModal
    \/ handleKeyChangeModal
    \/ handleVerifyModal
    \/ VerifyAnsweredModal

EnvSpec == ModalInit /\ [][EnvNext]_vars

\* the category tab of the open modal, over three categories
CatInit ==
    /\ ModalIdle
    /\ modal = Modal(ModalConfig(EmptyKeys, "", <<Cat("color", <<Item("red"), Item("blue")>>),
                                             Cat("material", <<>>),
                                             Cat("collar", <<>>)>>), TRUE)

CatNext ==
    \/ handleAddCategory
    \/ handleDeleteCategory
    \/ setSelectedCatIndex
    \/ handleCatDragStart
    \/ handleCatDrop
    \/ handleItemDragStart
    \/ handleItemDrop

CatSpec == CatInit /\ [][CatNext]_vars

-----------------------------------------------------------------------------
(* The App screen (src/App.tsx): categories, selections and the prompt *)

\* the ids of the categories a config may hold
CatIds == {"color", "fit"}

\* the item lists a category may hold after an edit in the settings modal
ItemChoices ==
    [c \in CatIds |->
        IF c = "color"
        THEN {<<"red", "blue">>, <<"blue">>, <<"blue", "green">>, <<>>}
        ELSE {<<"slim">>, <<>>}]

DesignCat(id, items) == [id |-> id, items |-> items]

\* the category lists a saved config may hold
DesignConfigs ==
    {<<>>}
      \cup { <<DesignCat(c, items)>> : c \in CatIds, items \in UNION {ItemChoices[d] : d \in CatIds} }
      \cup { <<DesignCat("color", i1), DesignCat("fit", i2)>> :
                i1 \in ItemChoices["color"], i2 \in ItemChoices["fit"] }
      \cup { <<DesignCat("fit", i2), DesignCat("color", i1)>> :
                i1 \in ItemChoices["color"], i2 \in ItemChoices["fit"] }

\* the head of every prompt and the separator of its parts, by what they say
PromptHead == "AI design: a fine sweater"

PromptComma == ", "

STATIC_PROMPT_SUFFIX == ""

\* parts.join(separator)
RECURSIVE join(_, _)
join(parts, separator) ==
    IF Len(parts) <= 1 THEN parts
    ELSE <<Head(parts), separator>> \o join(Tail(parts), separator)

\* the selections of the categories of the config, in their order
RECURSIVE selectedParts(_, _)
selectedParts(categories, selections) ==
    IF categories = <<>> THEN <<>>
    ELSE (IF Falsy(selections[Head(categories).id]) THEN <<>>
          ELSE <<selections[Head(categories).id]>>)
         \o selectedParts(Tail(categories), selections)

constructPrompt(categories, selections) ==
    LET parts == <<PromptHead>> \o selectedParts(categories, selections)
        suffix == IF Falsy(STATIC_PROMPT_SUFFIX) THEN <<>> ELSE <<PromptComma, STATIC_PROMPT_SUFFIX>>
    IN  join(parts, PromptComma) \o suffix

CatOf(categories, id) ==
    CHOOSE i \in 1..Len(categories) :
        categories[i].id = id /\ \A j \in 1..Len(categories) : categories[j].id = id => i <= j

HasCat(categories, id) == \E i \in 1..Len(categories) : categories[i].id = id

\* the effect on [config]: a category with items and no selection gets its
\* first item; every other selection stays
initialSelections(categories, selections) ==
    [c \in CatIds |->
        IF HasCat(categories, c) /\ Len(categories[CatOf(categories, c)].items) > 0
            /\ Falsy(selections[c])
        THEN categories[CatOf(categories, c)].items[1]
        ELSE selections[c]]

\* the state once the effects have run
\* the text of the prompt is kept as the parts it was joined from; a text
\* typed or returned by the enhancement is one part, the empty text none
TypedTexts == {<<>>, <<"a red sweater, my own words">>}

EnhancedTexts == {<<"a cosy red slim sweater, studio light">>}

\* no enhancement is awaited
NotEnhancing == [isEnhancing |-> FALSE, prompt |-> <<>>]

\* the state after the effects of a change of config or selections have run:
\* the selections are filled and the prompt is constructed again; the
\* enhancement awaited, if any, is not touched
Design(categories, selections, enhancing) ==
    LET merged == initialSelections(categories, selections)
    IN  [categories |-> categories, selections |-> merged,
         prompt |-> constructPrompt(categories, merged),
         isEnhancing |-> enhancing.isEnhancing, enhancing |-> enhancing.prompt]

Enhancing(d) == [isEnhancing |-> d.isEnhancing, prompt |-> d.enhancing]

\* handleRandomize: one of its items for every category that has items
Randomized(categories) ==
    { s \in [CatIds -> {Undefined} \cup UNION {Entries(i) : i \in UNION {ItemChoices[d] : d \in CatIds}}] :
        \A c \in CatIds :
            IF HasCat(categories, c) /\ Len(categories[CatOf(categories, c)].items) > 0
            THEN s[c] \in Entries(categories[CatOf(categories, c)].items)
            ELSE s[c] = Undefined }

DesignFrame == UNCHANGED <<genVars, verify, resolved, editor, res, calls, enhance, app, modal>>

DesignInit ==
    /\ config = [apiProvider |-> "gemini", keys |-> [p \in Providers |-> ""],
                 corsProxy |-> "", endpoints |-> [p \in Providers |-> ""]]
    /\ API_KEY = ""
    /\ NoCall
    /\ verify = NoVerify
    /\ resolved = NoResolved
    /\ editor = NoEditor
    /\ res = NoRes
    /\ calls = NoCalls
    /\ enhance = NoEnhance
    /\ app = NoApp
    /\ design = Design(<<DesignCat("color", <<"red", "blue">>), DesignCat("fit", <<"slim">>)>>,
                       [c \in CatIds |-> Undefined], NotEnhancing)
    /\ modal = NoModal

\* an option of the select of a category is chosen
handleSelectionChange ==
    /\ \E i \in 1..Len(design.categories) :
         \E item \in Entries(design.categories[i].items) :
            /\ design.selections[design.categories[i].id] # item
            /\ design' = Design(design.categories,
                                [design.selections EXCEPT ![design.categories[i].id] = item],
                                Enhancing(design))
    /\ DesignFrame

handleRandomize ==
    /\ \E newSelections \in Randomized(design.categories) :
         design' = Design(design.categories, newSelections, Enhancing(design))
    /\ DesignFrame

\* the settings modal saves a config: setConfig with a new object, so the
\* prompt is constructed again also when the categories are the same
setConfig ==
    /\ \E categories \in DesignConfigs :
         design' = Design(categories, design.selections, Enhancing(design))
    /\ DesignFrame

\* the textarea of the prompt is edited: onChange -> setPrompt
setPrompt ==
    /\ \E text \in TypedTexts \ {design.prompt} :
         design' = [design EXCEPT !.prompt = text]
    /\ DesignFrame

\* handleEnhancePrompt up to its await: the button is disabled while an
\* enhancement is awaited or the prompt is empty; the prompt of this render
\* is the one sent
handleEnhancePrompt ==
    /\ ~design.isEnhancing
    /\ design.prompt # <<>>
    /\ design' = [design EXCEPT !.isEnhancing = TRUE, !.enhancing = design.prompt]
    /\ DesignFrame

\* enhancePromptWithGemini resolves, with an enhanced text or with the prompt
\* it was given: setPrompt(enhanced), setIsEnhancing(false)
EnhancePromptAnswered ==
    /\ design.isEnhancing
    /\ \E enhanced \in EnhancedTexts \cup {design.enhancing} :
         design' = [design EXCEPT !.prompt = enhanced, !.isEnhancing = FALSE,
                                  !.enhancing = <<>>]
    /\ DesignFrame

DesignNext ==
    \/ handleSelectionChange
    \/ handleRandomize
    \/ setConfig
    \/ setPrompt
    \/ handleEnhancePrompt
    \/ EnhancePromptAnswered

DesignSpec == DesignInit /\ [][DesignNext]_vars

-----------------------------------------------------------------------------
(* Vocabulary of the properties *)

Provider == config.apiProvider

\* the two submit-and-poll adapters
Pollers == {"modelscope", "aliyun"}

Returned == result # NoResult

Failed == error # NoError

TimedOut ==
    /\ pc = "done" /\ ~Returned
    /\ error \in {Err("Generation timed out"), Err("ModelScope generation timed out."),
                   Err("Aliyun generation timed out.")}

\* a status answer that carries task data
TaskAnswer(r) == Ok(r) /\ r.json

\* the task status a status answer of the selected provider reports
StatusOf(r) ==
    IF Provider = "modelscope" THEN r.body.task_status ELSE r.body.output.task_status

\* the result images a status answer of the selected provider lists
ImagesOf(r) ==
    IF Provider = "modelscope" THEN r.body.output_images
    ELSE [i \in 1..Len(r.body.output.results) |-> r.body.output.results[i].url]

Success(r) ==
    /\ TaskAnswer(r)
    /\ StatusOf(r) \in (IF Provider = "modelscope" THEN {"SUCCEED", "SUCCEEDED"} ELSE {"SUCCEEDED"})

SuccessWithImage(r) == Success(r) /\ Len(ImagesOf(r)) > 0 /\ ~Falsy(ImagesOf(r)[1])

\* the provider's failure message in a status answer
MessageOf(r) == IF Provider = "modelscope" THEN r.body.message ELSE r.body.output.message

InSeq(x, sq) == \E i \in 1..Len(sq) : sq[i] = x

-----------------------------------------------------------------------------
(* C1 .. C10: termination and the polling loops *)

\* C1: every generateImage call ends, and ends in exactly one outcome: a
\* returned image reference or a thrown error, never both and never neither.
C1_ExactlyOneOutcome ==
    /\ [](pc = "done" => (Returned # Failed))
    /\ [](pc # "done" => ~Returned /\ ~Failed)
    /\ <>(pc = "done")

\* C2: a call never issues more than 60 status requests, whatever the remote
\* answers, and has timed out once the 60th attempt was unsuccessful.
C2_AtMost60StatusRequests == fetches <= MaxAttempts

\* C3: in both submit-and-poll adapters, when every status answer reports a
\* non-terminal status, no 61st status request is made and the call fails with
\* the timeout once the 60th answer is handled.
C3_PendingOnlyTimesOutAfter60 ==
    (Provider \in Pollers /\ quietOnly) =>
        /\ fetches <= MaxAttempts
        /\ (pc = "done" /\ fetches > 0) => (TimedOut /\ fetches = MaxAttempts)
        /\ (fetches = MaxAttempts /\ pc # "poll") => TimedOut

C3_Witness ==
    /\ Provider \in Pollers /\ quietOnly
    /\ pc = "done" /\ fetches = MaxAttempts /\ attempts = MaxAttempts
    /\ TimedOut

\* C4: in both submit-and-poll adapters, the status answer that reports success
\* with a result image ends the call at that fetch: the call returns the first
\* result image and no further status request is made; after pending answers
\* only, the k-th answer is handled with exactly k requests made.
C4_SuccessReturnsFirstImage ==
    [][ (pc = "poll" /\ Provider \in Pollers /\ SuccessWithImage(lastResp')) =>
            /\ pc' = "done"
            /\ result' = <<ImagesOf(lastResp')[1]>>
            /\ error' = NoError
            /\ fetches' = fetches
            /\ quietOnly => fetches = attempts + 1 ]_vars

\* pending, pending, succeeded: the result after exactly 3 fetches
C4_Witness ==
    /\ Provider \in Pollers
    /\ pc = "done" /\ fetches = 3 /\ attempts = 2
    /\ SuccessWithImage(lastResp) /\ Len(ImagesOf(lastResp)) = 2
    /\ result = <<"https://x/z.png">>

\* C5: in both submit-and-poll adapters, a status answer that reports FAILED
\* ends the call at that fetch with an error that carries the provider's
\* message, and no further status request is made.
C5_FailedStatusFailsAtOnce ==
    [][ (pc = "poll" /\ Provider \in Pollers /\ TaskAnswer(lastResp')
            /\ StatusOf(lastResp') = "FAILED") =>
            /\ pc' = "done"
            /\ result' = NoResult
            /\ error'.msg = (IF Provider = "modelscope" THEN "ModelScope task failed"
                                                        ELSE "Aliyun task failed")
            /\ InSeq(MessageOf(lastResp'), error'.detail)
            /\ fetches' = fetches ]_vars

\* FAILED on the first fetch: the call is over after exactly one fetch
C5_Witness ==
    /\ Provider \in Pollers
    /\ pc = "done" /\ fetches = 1 /\ attempts = 0
    /\ TaskAnswer(lastResp) /\ StatusOf(lastResp) = "FAILED"
    /\ InSeq("quota exceeded", error.detail)

\* C6: in both submit-and-poll adapters, a status answer that reports CANCELED
\* makes the call fail at that fetch; polling does not continue after it.
C6_CanceledStatusFailsAtOnce ==
    [][ (pc = "poll" /\ Provider \in Pollers /\ TaskAnswer(lastResp')
            /\ StatusOf(lastResp') = "CANCELED") =>
            (pc' = "done" /\ error' # NoError /\ ~(TimedOut')) ]_vars

\* C7: a network exception on one status request is tolerated: the attempt is
\* skipped and polling goes on; it never ends the call while attempts remain.
C7_FetchErrorTolerated ==
    [][ (pc = "poll" /\ lastResp'.type = "netfail" /\ attempts + 1 < MaxAttempts) =>
            pc' # "done" ]_vars

\* C8: in both submit-and-poll adapters, a status answer that reports success
\* ends polling at that fetch: the call returns the first result image or,
\* when the answer carries no image, fails; it never polls on after a success.
C8_SuccessStatusEndsPolling ==
    [][ (pc = "poll" /\ Provider \in Pollers /\ Success(lastResp')) =>
            /\ pc' = "done"
            /\ IF SuccessWithImage(lastResp')
                 THEN result' = <<ImagesOf(lastResp')[1]>> /\ error' = NoError
                 ELSE result' = NoResult /\ error' # NoError /\ ~(TimedOut') ]_vars

\* C9: the event-stream await makes at most 60 GETs, and when every answer
\* holds no data line with an image the call fails with the timeout after
\* exactly 60 GETs.
C9_EventAwaitTimesOutAfter60 ==
    Provider = "huggingface" =>
        /\ fetches <= MaxAttempts
        /\ (quietOnly /\ pc = "done" /\ fetches > 0) =>
               (TimedOut /\ fetches = MaxAttempts /\ attempts = MaxAttempts)
        /\ (quietOnly /\ fetches = MaxAttempts /\ attempts = MaxAttempts) => TimedOut

C9_Witness ==
    /\ Provider = "huggingface" /\ quietOnly
    /\ pc = "done" /\ fetches = MaxAttempts
    /\ error = Err("Generation timed out")

\* the index of the first line of a body that carries an image (0: none)
FirstImageLine(body) ==
    IF \E i \in 1..Len(body) : ImageLine(body[i])
    THEN CHOOSE i \in 1..Len(body) :
            ImageLine(body[i]) /\ \A j \in 1..(i - 1) : ~ImageLine(body[j])
    ELSE 0

\* C10: when a success answer of the event-stream await holds a data line
\* whose JSON is an array with an image in its first element, the await
\* returns the URL of the first such line at that attempt, with no further
\* GET; an answer without one never fails the call, whatever other lines
\* (comments, data lines that do not parse) it holds: the await sleeps on.
C10_ImageLineReturnsUrl ==
    [][ (pc = "poll" /\ Provider = "huggingface" /\ Ok(lastResp')) =>
            LET body == lastResp'.body
                k == FirstImageLine(body)
            IN  IF k > 0
                THEN /\ pc' = "done"
                     /\ result' = <<body[k].rest.value.elems[1].image.url>>
                     /\ error' = NoError
                     /\ fetches' = fetches
                ELSE /\ pc' = "sleep"
                     /\ result' = NoResult /\ error' = NoError ]_vars

\* a comment line followed by the data line with the image
C10_Witness ==
    /\ Provider = "huggingface" /\ pc = "done"
    /\ Ok(lastResp) /\ Len(lastResp.body) = 2
    /\ lastResp.body[1] = CommentLine
    /\ ImageLine(lastResp.body[2])
    /\ result = <<"https://x/y.png">>

-----------------------------------------------------------------------------
(* C11 .. C20: submit answers, credentials and dispatch *)

\* the adapters that answer a submit with a task or event id
Submitters == {"huggingface", "modelscope", "aliyun"}

\* the adapters that submit with fetch
HttpSubmitters == {"huggingface", "modelscope", "aliyun", "nvidia", "qiniu"}

\* the id a success answer to the submit of the selected provider carries
IdOf(r) ==
    CASE Provider = "huggingface" -> r.body.event_id
      [] Provider = "modelscope" -> r.body.task_id
      [] OTHER -> r.body.output.task_id

\* a non-success HTTP status
Rejected(r) == r.type = "http" /\ ~Ok(r)

\* the first n characters of a text
FirstChars(text, n) == [i \in 1..(IF Len(text) < n THEN Len(text) ELSE n) |-> text[i]]

\* C11: when the submit succeeds at HTTP level but its answer carries no task
\* or event id, the call fails at once and issues no status request (space
\* adapter and both submit-and-poll adapters).
C11_NoIdFailsWithoutStatusRequest ==
    [][ (pc = "submit" /\ Provider \in Submitters /\ Ok(lastResp') /\ lastResp'.json
            /\ Falsy(IdOf(lastResp'))) =>
            (pc' = "done" /\ error' # NoError /\ fetches' = 0) ]_vars

\* C12: a non-success HTTP status on any request of the call, submit or
\* status/event request, makes the call fail with a failure carrying it.
C12_AnyRejectionFailsWithStatus ==
    [][ (pc \in {"submit", "poll"} /\ Rejected(lastResp')) =>
            (pc' = "done" /\ error'.status = lastResp'.status) ]_vars

\* C13 as claimed: a non-success status on the submit request fails the call
\* with an error carrying the status and the response body text, and no
\* further request is issued.
C13_SubmitRejectionCarriesWholeText ==
    [][ (pc = "submit" /\ Provider \in HttpSubmitters /\ Rejected(lastResp')) =>
            /\ pc' = "done" /\ result' = NoResult
            /\ error'.status = lastResp'.status
            /\ error'.detail = lastResp'.text
            /\ submits' = submits /\ fetches' = fetches ]_vars

\* C13 as amended: the error carries the status and the response body text,
\* for the NVIDIA adapter the first 200 characters of it; no further request.
C13_SubmitRejectionCarriesStatusAndText ==
    [][ (pc = "submit" /\ Provider \in HttpSubmitters /\ Rejected(lastResp')) =>
            /\ pc' = "done" /\ result' = NoResult
            /\ error'.status = lastResp'.status
            /\ error'.detail = (IF Provider = "nvidia" THEN FirstChars(lastResp'.text, SliceLen)
                                                      ELSE lastResp'.text)
            /\ submits' = submits /\ fetches' = fetches ]_vars

\* HTTP 500 "internal error" on the OpenAI-compatible provider behind an
\* endpoint override
C13_Witness ==
    /\ Provider = "qiniu" /\ config.endpoints["qiniu"] = "https://proxy.example/v1"
    /\ pc = "done" /\ submits = 1 /\ fetches = 0
    /\ lastResp = Http(500, InternalError)
    /\ error = ErrWith("API Error", 500, InternalError)

\* C14: verifyConnection called with an empty credential returns false, for
\* every provider, without any network call.
C14_EmptyKeyIsFalseWithoutCall ==
    (verify.pc # "idle" /\ verify.key = "") =>
        (verify.pc = "done" /\ verify.returned /\ ~verify.value /\ verify.calls = 0)

\* an empty key on a provider whose probe would pass on most statuses
C14_Witness ==
    /\ verify.pc = "done" /\ verify.provider = "nvidia" /\ verify.key = ""
    /\ verify.returned /\ ~verify.value /\ verify.calls = 0

\* the awaited call of a verification failed
ProbeFailed == verify.resp.type \in {"netfail", "sdkfail"}

\* C15: verifyConnection never propagates an error; a call whose probe fails
\* completes with false.
C15_VerifyNeverThrows ==
    /\ verify.error = NoError
    /\ (verify.pc = "done" /\ ProbeFailed) => (verify.returned /\ ~verify.value)

\* the probe of a keyed call was rejected by the network layer
C15_Witness ==
    /\ verify.pc = "done" /\ verify.key # "" /\ verify.calls = 1
    /\ verify.resp = NetFail
    /\ verify.returned /\ ~verify.value

\* C16: for NVIDIA and Aliyun, a verification whose probe was answered returns
\* false exactly when the status is 401 or 403 and true for every other status.
C16_OnlyAuthStatusesFail ==
    (verify.pc = "done" /\ verify.provider \in {"nvidia", "aliyun"} /\ verify.resp.type = "http") =>
        /\ verify.returned
        /\ verify.value = (verify.resp.status \notin {401, 403})

\* a server error on the probe still counts as a working connection
C16_Witness ==
    /\ verify.pc = "done" /\ verify.provider = "aliyun" /\ verify.resp = Http(500, <<>>)
    /\ verify.returned /\ verify.value

\* the provider a getApiKey call resolves for
ResolvedProvider ==
    IF resolved.providerOverride = Undefined THEN config.apiProvider ELSE resolved.providerOverride

\* that provider has a non-empty key configured
Configured(p) == config.keys # NoKeys /\ config.keys[p] \notin {"", Undefined}

\* C17: getApiKey returns the key configured for the provider when there is a
\* non-empty one, otherwise the environment secret when the provider is
\* gemini, otherwise the empty string.
C17_KeyResolution ==
    resolved.pc = "done" =>
        resolved.key =
            (IF Configured(ResolvedProvider) THEN config.keys[ResolvedProvider]
             ELSE IF ResolvedProvider = "gemini" /\ API_KEY # Undefined THEN API_KEY
             ELSE "")

\* the environment secret is returned for gemini, asked for by override while
\* another provider with its own key is selected
C17_Witness ==
    /\ resolved.pc = "done" /\ resolved.providerOverride = "gemini"
    /\ config.apiProvider = "nvidia" /\ Configured("nvidia") /\ ~Configured("gemini")
    /\ API_KEY = "env-key" /\ resolved.key = "env-key"

\* the selected provider has no key of its own and no environment secret
\* stands in for it
NoCredential == config.keys[Provider] = "" /\ (Provider = "gemini" => API_KEY = "")

\* the credential the selected provider's requests carry
CredentialOf ==
    IF config.keys[Provider] # "" THEN config.keys[Provider]
    ELSE IF Provider = "gemini" THEN API_KEY ELSE ""

MissingCredential == error \in { missingKey(p) : p \in Providers }

\* nothing was sent
NoRequestSent == submits = 0 /\ fetches = 0 /\ lastReq = NoReq

\* C18 as claimed: for every provider, a call whose credential is empty fails
\* with a missing-credential error at once, and no request is sent.
C18_EmptyCredentialFailsForAll ==
    (pc # "start" /\ NoCredential) =>
        (pc = "done" /\ MissingCredential /\ result = NoResult /\ NoRequestSent)

\* C18 as amended: for every provider but the space-hosted one, a call whose
\* credential is empty fails with a missing-credential error at once, and no
\* request is sent; the space-hosted adapter submits without a token.
C18_EmptyCredentialFails ==
    /\ (pc # "start" /\ NoCredential /\ Provider # "huggingface") =>
          (pc = "done" /\ MissingCredential /\ result = NoResult /\ NoRequestSent)
    /\ (pc # "start" /\ NoCredential /\ Provider = "huggingface") =>
          (submits = 1 /\ lastReq.auth = "" /\ ~MissingCredential)

\* Gemini selected with neither a key nor an environment secret, while other
\* providers have keys
C18_Witness ==
    /\ Provider = "gemini" /\ NoCredential /\ config.keys["nvidia"] # ""
    /\ pc = "done" /\ error = Err("Google Gemini API Key is missing.") /\ NoRequestSent

\* the endpoints of each provider: submit, and status where it polls
EndpointsOf(p) ==
    CASE p = "gemini" -> {"GoogleGenAI imagen-4.0-generate-001"}
      [] p = "huggingface" -> {"https://tongyi-mai-z-image-turbo.hf.space/call/generate",
                               "https://tongyi-mai-z-image-turbo.hf.space/call/generate/"}
      [] p = "modelscope" -> {"https://api-inference.modelscope.cn/v1/images/generations",
                              "https://api-inference.modelscope.cn/v1/tasks/"}
      [] p = "nvidia" -> {"https://ai.api.nvidia.com/v1/genai/stabilityai/stable-diffusion-3.5-large"}
      [] p = "aliyun" -> {"https://dashscope.aliyuncs.com/api/v1/services/aigc/text2image/image-synthesis",
                          "https://dashscope.aliyuncs.com/api/v1/tasks/"}
      [] OTHER -> {"https://api.openai.com/v1/images/generations", "https://proxy.example/v1"}

\* C19: the call dispatches on config.apiProvider alone: the adapter entered
\* is the one of the selected provider, every request goes to an endpoint of
\* that provider and to no other provider's, with the credential resolved
\* for that provider.
C19_DispatchOnProvider ==
    /\ pc # "start" => adapter = Provider
    /\ lastReq # NoReq =>
          /\ lastReq.base \in EndpointsOf(Provider)
          /\ \A p \in Providers \ {Provider} : lastReq.base \notin EndpointsOf(p)
          /\ lastReq.auth = CredentialOf

\* Aliyun polls its own task endpoint with its own key while every other
\* provider has a key too
C19_Witness ==
    /\ Provider = "aliyun" /\ \A p \in Providers : config.keys[p] # ""
    /\ pc = "poll" /\ fetches > 0
    /\ lastReq = [proxy |-> "", base |-> "https://dashscope.aliyuncs.com/api/v1/tasks/",
                  id |-> taskId, auth |-> "key-aliyun"]

\* C20: a call submits once and never again: whatever has got past the
\* dispatch has issued one submit request, and once the call has failed
\* nothing more happens: no request, no other adapter, the same error.
C20_OneSubmitFirstFailureFinal ==
    /\ [](submits <= 1 /\ ((pc \in {"submit", "poll", "sleep"} \/ Returned) => submits = 1))
    /\ [][Failed => (pc = "done" /\ UNCHANGED vars)]_vars

\* a call that failed while polling, with other providers' keys at hand
C20_Witness ==
    /\ pc = "done" /\ Failed /\ submits = 1 /\ fetches > 0
    /\ \A p \in Providers : config.keys[p] # ""

-----------------------------------------------------------------------------
(* C21 .. C30 *)

\* a step that issues a status or event request
IssuesStatusRequest == pc' = "poll" /\ (pc # "poll" \/ inflight' > inflight)

\* C21: the requests of one call are strictly sequential: at most one is
\* outstanding at any time, and a status request is issued only by the step
\* that receives the submit response or after the sleep that follows the
\* answer to the status request before it.
C21_RequestsAreSequential ==
    /\ [](inflight \in {0, 1} /\ (inflight = 1 <=> pc \in {"submit", "poll"}))
    /\ [][ IssuesStatusRequest =>
             /\ (pc = "submit" /\ Ok(lastResp')) \/ pc = "sleep"
             /\ inflight' = 1
             /\ submits = 1 ]_vars

\* the third status request of an Aliyun call is outstanding, alone
C21_Witness ==
    /\ Provider = "aliyun" /\ pc = "poll" /\ fetches = 3 /\ attempts = 2 /\ inflight = 1

\* C22: whenever the status shown for a provider is 'success', the key entered
\* for that provider is the key that verification was given.
C22_ConfirmedKeyIsCurrentKey ==
    \A p \in EditorProviders :
        editor.verifying[p] = "success" => editor.keys[p] = editor.verified[p]

\* the resolutions the Gemini adapter tells from the square
GeminiTable ==
    { r \in Resolutions : r.label \in {"3:4", "4:3", "16:9", "9:16"} }
        \cup {Raw(864, 1152), Raw(1152, 864), Raw(1280, 720), Raw(720, 1280)}

\* the aspect ratios the Gemini adapter can send, as width and height
GeminiRatios == {"1:1", "3:4", "4:3", "16:9", "9:16"}

RatioOf(label) ==
    CASE label = "1:1" -> <<1, 1>>
      [] label = "3:4" -> <<3, 4>>
      [] label = "4:3" -> <<4, 3>>
      [] label = "16:9" -> <<16, 9>>
      [] OTHER -> <<9, 16>>

Abs(n) == IF n < 0 THEN 0 - n ELSE n

\* |w/h - a/b| <= |w/h - c/d|, over the common denominator h*b*d
NoFarther(w, h, p, q) ==
    Abs(w * RatioOf(p)[2] - RatioOf(p)[1] * h) * RatioOf(q)[2]
        <= Abs(w * RatioOf(q)[2] - RatioOf(q)[1] * h) * RatioOf(p)[2]

Nearest(w, h) == { p \in GeminiRatios : \A q \in GeminiRatios : NoFarther(w, h, p, q) }

\* C23: a resolution outside the table of an adapter gets the square default:
\* aspect ratio 1:1 from the Gemini adapter, "1024x1024 ( 1:1 )" from the
\* space adapter; the lookup never fails.
C23_UnknownResolutionIsSquare ==
    res.pc = "done" =>
        /\ res.resolution \notin GeminiTable => res.aspectRatio = "1:1"
        /\ res.resolution \notin Supported => res.formattedRes = Formatted(1024, 1024, "1:1")
        /\ res.formattedRes # NotFormatted

\* 512x512 is in neither table
C23_Witness ==
    /\ res.pc = "done" /\ res.resolution = Raw(512, 512)
    /\ res.aspectRatio = "1:1" /\ res.formattedRes = Formatted(1024, 1024, "1:1")

\* C24: for a supported resolution whose ratio the Gemini adapter supports,
\* the label of the formatted string is the aspect ratio the Gemini adapter
\* derives, and the formatted string starts with the raw resolution.
C24_LabelsAgree ==
    (res.pc = "done" /\ res.resolution \in Supported
        /\ res.formattedRes.ratio \in GeminiRatios) =>
            /\ res.formattedRes.ratio = res.aspectRatio
            /\ res.formattedRes.w = res.resolution.w
            /\ res.formattedRes.h = res.resolution.h

\* "864x1152" gives 3:4 in both
C24_Witness ==
    /\ res.pc = "done" /\ res.resolution = Raw(864, 1152)
    /\ res.aspectRatio = "3:4" /\ res.formattedRes = Formatted(864, 1152, "3:4")

\* C25: every supported resolution is mapped to the supported ratio nearest
\* to its width:height, and 1:1 is chosen only for the square resolution and
\* for values outside the supported set.
C25_NearestSupportedRatio ==
    (res.pc = "done" /\ res.resolution \in Supported) =>
        /\ res.aspectRatio \in Nearest(res.resolution.w, res.resolution.h)
        /\ res.aspectRatio = "1:1" => res.resolution.w = res.resolution.h

\* the first item of a JSON answer of the OpenAI-compatible endpoint has
\* inline bytes / has a URL
HasInline(r) == Len(r.body.data) > 0 /\ r.body.data[1].b64_json \notin {Undefined, ""}

HasUrl(r) == Len(r.body.data) > 0 /\ r.body.data[1].url \notin {Undefined, ""}

\* C26: from a JSON success answer the OpenAI-compatible adapter returns the
\* data URI of the first item's inline base64 when it has one (a URL beside
\* it or not), otherwise the item's URL, and fails when the item has neither
\* or there is no item.
C26_InlineThenUrlElseFail ==
    [][ (pc = "submit" /\ Provider = "qiniu" /\ Ok(lastResp') /\ lastResp'.json) =>
            /\ pc' = "done"
            /\ HasInline(lastResp') =>
                  (result' = <<"data:image/png;base64,", lastResp'.body.data[1].b64_json>>
                      /\ error' = NoError)
            /\ (~HasInline(lastResp') /\ HasUrl(lastResp')) =>
                  (result' = <<lastResp'.body.data[1].url>> /\ error' = NoError)
            /\ (~HasInline(lastResp') /\ ~HasUrl(lastResp')) =>
                  (result' = NoResult /\ error' # NoError) ]_vars

\* {data: [{b64_json: "QQ==", url: ...}]} behind the endpoint override, with
\* the key sk-test
C26_Witness ==
    /\ Provider = "qiniu" /\ config.endpoints["qiniu"] = "https://proxy.example/v1"
    /\ lastReq.auth = "sk-test"
    /\ pc = "done" /\ Ok(lastResp) /\ lastResp.json
    /\ HasInline(lastResp) /\ HasUrl(lastResp)
    /\ result = <<"data:image/png;base64,", "QQ==">>

\* C27: with ModelScope selected and no proxy configured, a fetch that fails
\* at network level, on the submit or on a status request, ends the call
\* with the CORS/proxy error and not with the fetch failure itself.
C27_NetworkFailureIsCorsError ==
    [][ (Provider = "modelscope" /\ config.corsProxy = "" /\ pc \in {"submit", "poll"}
            /\ lastResp'.type = "netfail") =>
            (pc' = "done" /\ result' = NoResult
                /\ error' = Err("ModelScope CORS") /\ error' # fetchRejection(lastResp')) ]_vars

\* the error a call ends with when its attempts are used up
PairTimedOut(c) ==
    c.error = IF c.provider = "huggingface" THEN Err("Generation timed out")
              ELSE Err("ModelScope generation timed out.")

\* C28: two calls running at the same time do not affect each other: in every
\* interleaving the attempt counter of a call counts the "not ready yet"
\* answers that this call was given and no others, and a call ends with the
\* outcome of its own answers: with the image of its own last answer, with
\* the timeout after 60 waits of its own, or with an error on a failing
\* answer of its own
C28_CallsAreIndependent ==
    \A i \in Callers :
        LET c == calls[i]
        IN  /\ c.attempts <= c.waits
            /\ c.waits <= c.attempts + 1
            /\ c.pc = "done" =>
                 \/ /\ c.last \in {PairStreamImage, PairSucceeded}
                    /\ c.result = <<"https://x/y.png">> /\ c.error = NoError
                 \/ /\ c.last \in {PairHeartbeat, PairPending}
                    /\ c.waits = MaxAttempts
                    /\ c.result = NoResult /\ PairTimedOut(c)
                 \/ /\ c.last \in {PairOffline, PairRejected, PairFailed}
                    /\ c.result = NoResult /\ c.error # NoError /\ ~PairTimedOut(c)

\* two calls of the space adapter, interleaved: one has timed out after its
\* own 60 attempts, the other returned an image on its third
C28_Witness ==
    /\ calls[1].provider = "huggingface" /\ calls[2].provider = "huggingface"
    /\ calls[1].pc = "done" /\ calls[1].error = Err("Generation timed out")
    /\ calls[1].attempts = MaxAttempts /\ calls[1].waits = MaxAttempts
    /\ calls[2].pc = "done" /\ calls[2].result = <<"https://x/y.png">>
    /\ calls[2].attempts = 2 /\ calls[2].waits = 2

\* the answer holds the complete marker
HasComplete(body) == \E i \in 1..Len(body) : body[i] = CompleteLine

\* C29: an `event: complete` line does not end the event-stream await: an
\* answer with the marker and no image line is handled like a heartbeat (the
\* await sleeps, counts the attempt and issues the next GET while fewer than
\* 60 attempts are used, the timeout after that), and an image line in an
\* answer with the marker is still returned.
C29_CompleteMarkerDoesNotEndAwait ==
    /\ [][ (pc = "poll" /\ Provider = "huggingface" /\ Ok(lastResp') /\ HasComplete(lastResp'.body)) =>
             IF FirstImageLine(lastResp'.body) = 0
             THEN pc' = "sleep" /\ result' = NoResult /\ error' = NoError /\ attempts' = attempts
             ELSE pc' = "done" /\ error' = NoError
                    /\ result' = <<lastResp'.body[FirstImageLine(lastResp'.body)].rest.value.elems[1].image.url>> ]_vars
    /\ [][ (pc = "sleep" /\ Provider = "huggingface") =>
             /\ attempts' = attempts + 1
             /\ IF attempts + 1 < MaxAttempts
                THEN pc' = "poll" /\ fetches' = fetches + 1 /\ error' = NoError
                ELSE pc' = "done" /\ fetches' = fetches /\ error' = Err("Generation timed out") ]_vars

\* the second GET was answered with the complete marker alone and the await
\* sleeps on
C29_Witness ==
    /\ Provider = "huggingface" /\ pc = "sleep" /\ attempts = 1 /\ fetches = 2
    /\ lastResp = Stream(<<CompleteLine>>)
    /\ result = NoResult /\ error = NoError

\* C30: every value generateImage returns is a usable image reference: a
\* non-empty URL, or a data URI with inline bytes; no piece of it is missing.
C30_ReturnIsUsableImage ==
    Returned => (Len(result) > 0 /\ \A i \in 1..Len(result) : result[i] \notin {Undefined, ""})
-----------------------------------------------------------------------------
(* C31 *)

\* the credential stored for Gemini, or else the environment secret
GeminiCredential ==
    IF config.keys # NoKeys /\ ~Falsy(config.keys["gemini"]) THEN config.keys["gemini"]
    ELSE IF Falsy(API_KEY) THEN "" ELSE API_KEY

OnlyWhitespace(s) == \A i \in 1..Len(s) : s[i] \in Whitespace

\* v is t without the whitespace at its two ends
IsTrimOf(v, t) ==
    /\ v = <<>> \/ (v[1] \notin Whitespace /\ v[Len(v)] \notin Whitespace)
    /\ \E i \in 0..Len(t) :
         /\ i + Len(v) <= Len(t)
         /\ OnlyWhitespace(SubSeq(t, 1, i))
         /\ SubSeq(t, i + 1, i + Len(v)) = v
         /\ OnlyWhitespace(SubSeq(t, i + Len(v) + 1, Len(t)))

\* C31: a finished enhancePromptWithGemini call never threw; with no Gemini
\* credential it returned the base prompt unchanged without any request; with
\* one it issued one request and returned the base prompt when the request was
\* rejected or carried no or empty text, and the trimmed text otherwise; the
\* credential is the one resolved for Gemini whatever provider is selected
C31_EnhanceNeverFails ==
    enhance.pc = "done" =>
        /\ ~enhance.thrown
        /\ enhance.apiKey = GeminiCredential
        /\ GeminiCredential = "" =>
             enhance.requests = 0 /\ enhance.value = enhance.basePrompt
        /\ GeminiCredential # "" =>
             /\ enhance.requests = 1
             /\ IF enhance.response.kind \in {"reject", "notext"} \/ enhance.response.text = <<>>
                THEN enhance.value = enhance.basePrompt
                ELSE IsTrimOf(enhance.value, enhance.response.text)

\* a call made with NVIDIA selected and keyed, on the environment secret,
\* returned a completion shorter than the text that came
C31_Witness ==
    /\ enhance.pc = "done"
    /\ config.apiProvider = "nvidia"
    /\ config.keys # NoKeys
    /\ config.keys["nvidia"] # ""
    /\ enhance.apiKey = "env-key"
    /\ enhance.response.kind = "text"
    /\ enhance.value # enhance.response.text
    /\ enhance.value = <<"k", " ", "n">>

-----------------------------------------------------------------------------
(* C32, C33, C39 *)

Generating == app.generationState.isGenerating

\* a step of handleGenerate up to its await: a generation call is started
GenerationStarts == app'.pending > app.pending

\* C32: isGenerating is true exactly while a generation call is pending, the
\* progress timer runs exactly then, a call is only started while isGenerating
\* is false, so at most one is pending, and every started generation leads to
\* isGenerating false with the timer stopped
C32_GeneratingExactlyWhilePending ==
    /\ [](Generating <=> app.pending = 1)
    /\ [](app.pending <= 1 /\ (app.interval <=> Generating))
    /\ [][GenerationStarts => ~Generating]_vars
    /\ (Generating ~> (~Generating /\ ~app.interval /\ app.pending = 0))

Displayed == app.generationState.imageUrl # Null

\* C33: the displayed image and the error message are never both set: while
\* a generation runs neither is set, an image is shown only with progress 100
\* and an error only with progress 0, both only while no generation runs
C33_ImageAndErrorExclusive ==
    /\ ~(Displayed /\ app.errorMsg.set)
    /\ Generating => ~Displayed /\ ~app.errorMsg.set
    /\ Displayed => app.generationState.progress = 100 /\ ~Generating
    /\ app.errorMsg.set => app.generationState.progress = 0 /\ ~Generating

\* a generation failed after one that had succeeded with seed 7: the image
\* of the first is gone and the error of the second is shown
C33_Witness ==
    /\ app.errorMsg.set
    /\ app.generationState.seed = 7
    /\ ~Displayed
    /\ ~Generating

DecimalDigits == {"0", "1", "2", "3", "4", "5", "6", "7", "8", "9"}

AllDecimal(s) == s # <<>> /\ \A i \in 1..Len(s) : s[i] \in DecimalDigits

\* the field holds an integer: an optional minus sign, then digits only
HoldsInteger(s) == AllDecimal(s) \/ (s # <<>> /\ Head(s) = "-" /\ AllDecimal(Tail(s)))

DecimalDigit(c) ==
    CASE c = "0" -> 0 [] c = "1" -> 1 [] c = "2" -> 2 [] c = "3" -> 3 [] c = "4" -> 4
      [] c = "5" -> 5 [] c = "6" -> 6 [] c = "7" -> 7 [] c = "8" -> 8 [] c = "9" -> 9

RECURSIVE Decimal(_)
Decimal(s) == IF s = <<>> THEN 0 ELSE Decimal(SubSeq(s, 1, Len(s) - 1)) * 10 + DecimalDigit(s[Len(s)])

\* the integer the field holds
IntegerHeld(s) == IF Head(s) = "-" THEN 0 - Decimal(Tail(s)) ELSE Decimal(s)

\* C39: a generation started with random seed off uses the integer the seed
\* field holds, 0 included, and 42 when the field is empty; one started with
\* random seed on uses an integer of 0..999999 and writes it to the field;
\* the seed recorded with an image is the seed the generation used
C39_SeedIsTheEnteredInteger ==
    [][ /\ (GenerationStarts /\ ~app.isRandomSeed) =>
             /\ HoldsInteger(app.seedInput) => app'.usedSeed = IntegerHeld(app.seedInput)
             /\ app.seedInput = <<>> => app'.usedSeed = DefaultSeed
             /\ app'.seedInput = app.seedInput
        /\ (GenerationStarts /\ app.isRandomSeed) =>
             /\ app'.usedSeed \in 0..999999
             /\ HoldsInteger(app'.seedInput)
             /\ IntegerHeld(app'.seedInput) = app'.usedSeed
        /\ (app'.generationState.imageUrl # Null /\ app.generationState.imageUrl = Null) =>
             app'.generationState.seed = app.usedSeed
      ]_vars

-----------------------------------------------------------------------------
(* C34 *)

FlightsOf(p) == { f \in editor.flights : f.provider = p }

\* C34: from the settings modal at most one verifyConnection call per
\* provider is under way at any time, whatever the order of verify clicks,
\* credential edits and provider switches
C34_OneVerificationPerProvider ==
    \A p \in EditorProviders : Cardinality(FlightsOf(p)) <= 1

-----------------------------------------------------------------------------
(* C35, C36, C37 *)

\* a config saved the old way: the key of the selected provider is in
\* userApiKey and no key is in a keys object
SavedTheOldWay(cfg) == cfg.keys \in {NoKeys, EmptyKeys} /\ cfg.userApiKey # ""

\* the keys the modal shows for a config: its keys object, an empty one when
\* it has none, the key saved the old way under the selected provider
ShownKeys(cfg) ==
    IF SavedTheOldWay(cfg) THEN KeysOf(cfg.apiProvider, cfg.userApiKey)
    ELSE IF cfg.keys = NoKeys THEN EmptyKeys ELSE cfg.keys

\* C35: only Save changes the application's config, and it sets it to the
\* local copy; closing leaves it unchanged; opening shows the application's
\* config again: the modal renders, its local copy has the categories and
\* keys of the config, and the verification status is reset
C35_OnlySavePassesTheCopy ==
    [][ /\ handleSave => modal'.config = modal.localConfig
        /\ ~handleSave => modal'.config = modal.config
        /\ ModalOpened =>
             /\ ~modal'.crashed
             /\ modal'.verifying = NoStatus
             /\ modal'.localConfig.categories = modal.config.categories
             /\ modal'.localConfig.keys = ShownKeys(modal.config)
      ]_vars

\* b holds the entries of a, each once, in some order
IsPermutation(a, b) ==
    /\ Len(a) = Len(b)
    /\ \E f \in [1..Len(a) -> 1..Len(a)] :
         /\ \A i, j \in 1..Len(a) : f[i] = f[j] => i = j
         /\ \A i \in 1..Len(a) : b[f[i]] = a[i]

\* C36: every category drop leaves the category list a permutation of what
\* it was, also when the drag was started before a deletion or the drop
\* follows an item drag
C36_DropPermutesCategories ==
    [][handleCatDrop =>
          IsPermutation(modal.localConfig.categories, modal'.localConfig.categories)]_vars

SelectedCat(m) == m.localConfig.categories[m.selectedCatIndex + 1]

InRange(m, i) == i >= 0 /\ i < Len(m.localConfig.categories)

\* C37: a category drop with the dragged and the selected index in range
\* keeps the same category selected, and while the list is not empty the
\* selected index is an index of the list
C37_DropKeepsSelection ==
    /\ [][(handleCatDrop /\ InRange(modal, modal.draggedCatIndex)
                         /\ InRange(modal, modal.selectedCatIndex)) =>
             /\ InRange(modal', modal'.selectedCatIndex)
             /\ SelectedCat(modal') = SelectedCat(modal)]_vars
    /\ [](Len(modal.localConfig.categories) > 0 => InRange(modal, modal.selectedCatIndex))

\* after an add and a drop the new category, still selected, is second of four
C37_Witness ==
    /\ Len(modal.localConfig.categories) = 4
    /\ modal.selectedCatIndex = 1
    /\ SelectedCat(modal).id = <<"cat_", 1>>
    /\ modal.draggedCatIndex = NullIndex
    /\ ~modal.crashed

-----------------------------------------------------------------------------
(* C38 *)

\* the prompt constructed from the current config and selections
Constructed == constructPrompt(design.categories, design.selections)

\* C38: for every category of the current config the selection stored for
\* it, if any, is one of its current items, and every part of the
\* constructed prompt after its head is an item of a current category; also
\* after a config is saved in which the selected item is deleted
C38_SelectionsAreCurrentItems ==
    /\ \A i \in 1..Len(design.categories) :
         LET cat == design.categories[i]
         IN  ~Falsy(design.selections[cat.id]) => design.selections[cat.id] \in Entries(cat.items)
    /\ \A k \in 2..Len(Constructed) :
         Constructed[k] # PromptComma =>
            \E i \in 1..Len(design.categories) :
                Constructed[k] \in Entries(design.categories[i].items)

====
